---- MODULE Spec2Model ----
(***************************************************************************)
(* A model of scma-gcal-sync: the reconciliation of SCMA events and users  *)
(* with a Google calendar (events, ACL) and a Google contacts group.       *)
(*                                                                         *)
(* The remote services are modelled by what the calls of the program do to *)
(* them; a remote call is one atomic step that may also fail.              *)
(***************************************************************************)
EXTENDS Integers, Sequences, FiniteSets, TLC

None == "none"

\* Option<T>: None is the empty tuple, Some(x) the tuple of x
NoneOpt == <<>>
Some(x) == <<x>>

(***************************************************************************)
(* Bounds of the model.                                                    *)
(***************************************************************************)
MaxUsers == 3
MaxPeople == 2
MaxRules == 3

MaxDesired == 2
MaxOwners == 1
MaxEvents == 4
MaxFaults == 1
MaxEntries == 2

\* gcal.rs: the widths of the two pools of GCal
CONCURRENT_REQUESTS == 3
CONCURRENT_REQUESTS_ACL == 1
\* main.rs: the width of the pool of the web-to-calendar pipeline
MAIN_CONCURRENT_REQUESTS == 3

Emails == {"a", "b", "c"}
OpsEmails == {"a", "b"}
Names == {"n1", "n2"}
ResourceNames == {"p1", "p2"}
Roles == {"reader", "owner", "writer"}

SeqsUpTo(S, n) == UNION {[1..k -> S] : k \in 0..n}

Range(s) == {s[i] : i \in DOMAIN s}

Max(S) == CHOOSE x \in S : \A y \in S : y <= x

(***************************************************************************)
(* gppl.rs: GPpl::people_sync_ops                                          *)
(***************************************************************************)

\* model.rs User, restricted to the fields the diff reads
OpsUserRecords == [email : OpsEmails, name : Names]

\* gppl.rs PersonWrapper, restricted to the fields the diff reads; email is
\* an Option<String>
OpsPersonRecords ==
    [resource_name : ResourceNames, email : {Some(e) : e \in OpsEmails} \cup {NoneOpt}]

\* users.into_iter().map(|user| (user.email.clone(), user))
KeyedUsers(users) == [i \in DOMAIN users |-> <<users[i].email, users[i]>>]

HasEmail(person) == person.email # NoneOpt

\* A collect that keeps the persons without an email, under the key 0
KeyedPeopleAll(people) ==
    [i \in DOMAIN people |->
        <<IF people[i].email = NoneOpt THEN 0 ELSE people[i].email[1], people[i]>>]

\* people.into_iter().filter_map(..): the persons that have an email, each
\* with its email
KeyedPeople(people) ==
    LET kept == SelectSeq(people, HasEmail)
    IN [i \in DOMAIN kept |-> <<kept[i].email[1], kept[i]>>]

\* Iterator::collect into a HashMap<String, _>: the pairs are inserted in
\* list order, so the last value of a key is the one kept.
HashMapCollect(pairs) ==
    LET keys == {pairs[i][1] : i \in DOMAIN pairs}
    IN [k \in keys |-> pairs[Max({i \in DOMAIN pairs : pairs[i][1] = k})][2]]

\* people_sync_ops with the HashMap collect replaced by a Vec that keeps
\* every element (no dedup by key)
people_sync_ops_nodedup(users, people) ==
    LET user_emails == {users[i].email : i \in DOMAIN users}
        withEmail == Range(SelectSeq(people, HasEmail))
        person_emails == {p.email[1] : p \in withEmail}
    IN [inserts |-> {u \in Range(users) : u.email \notin person_emails},
        deletes |-> {p \in withEmail : p.email[1] \notin user_emails},
        updates |-> {up \in Range(users) \X withEmail : up[1].email = up[2].email[1]}]

\* The three buckets are Vecs filled in HashSet iteration order, which is
\* unspecified; each key is visited once, so a bucket is modelled as the set
\* of its elements.
people_sync_ops(users, people) ==
    LET usersMap == HashMapCollect(KeyedUsers(users))
        peopleMap == HashMapCollect(KeyedPeople(people))
        user_emails == DOMAIN usersMap
        person_emails == DOMAIN peopleMap
    IN [inserts |-> {usersMap[e] : e \in user_emails \ person_emails},
        deletes |-> {peopleMap[e] : e \in person_emails \ user_emails},
        updates |-> {<<usersMap[e], peopleMap[e]>> : e \in user_emails \cap person_emails}]

\* HashSet::difference / intersection iterate in an unspecified order that
\* visits each element once: the possible iteration orders of the set S
HashOrders(S) == {o \in [1..Cardinality(S) -> S] : Range(o) = S}

\* .map(|email| map.remove(email).unwrap()).collect::<Vec<_>>() over the
\* iteration order
CollectVec(order, map) == [i \in DOMAIN order |-> map[order[i]]]

(***************************************************************************)
(* gppl.rs: PersonWrapper::update, the merge of a user into a person      *)
(***************************************************************************)
SCMA_MEMBER_STATUS_KEY == "SCMA Member Status"
SCMA_TRIP_LEADER_STATUS_KEY == "SCMA Trip Leader Status"
SCMA_POSITION_KEY == "SCMA Position"

\* model.rs User::address: format!("{}, {}, {} {}", address, city, state, zipcode)
User_address(user) ==
    <<user.address, ", ", user.city, ", ", user.state, " ", user.zipcode>>

create_api_address(user) ==
    [type |-> Some("SCMA"), formatted_value |-> Some(User_address(user))]

\* user.phone is an Option<String>, copied as it is
create_api_phone_number(user) == [type |-> Some("SCMA"), value |-> user.phone]

\* Option::unwrap_or_else(|| "n/a".to_string())
User_trip_leader_status(user) ==
    IF user.trip_leader_status = NoneOpt THEN "n/a" ELSE user.trip_leader_status[1]

User_position(user) == IF user.position = NoneOpt THEN "n/a" ELSE user.position[1]

\* A find that never matches
FindTypeNever(list, type) == 0

\* iter_mut().find(|entry| entry.type_ == new.type_): the index of the first
\* entry of that type, 0 when there is none
FindType(list, type) ==
    LET hits == {i \in DOMAIN list : list[i].type = type}
    IN IF hits = {} THEN 0 ELSE CHOOSE i \in hits : \A j \in hits : i <= j

\* An update that replaces the whole list by the new entry
person_phone_numbers_replace(new_phone_number, phone_numbers) ==
    Some(<<new_phone_number>>)

person_phone_numbers_update_or_insert(new_phone_number, phone_numbers) ==
    IF phone_numbers = NoneOpt
    THEN Some(<<new_phone_number>>)
    ELSE LET found == FindType(phone_numbers[1], new_phone_number.type)
         IN IF found # 0
            THEN Some([phone_numbers[1] EXCEPT ![found] = new_phone_number])
            ELSE Some(Append(phone_numbers[1], new_phone_number))

person_addresses_update_or_insert(new_address, addresses) ==
    IF addresses = NoneOpt
    THEN Some(<<new_address>>)
    ELSE LET found == FindType(addresses[1], new_address.type)
         IN IF found # 0
            THEN Some([addresses[1] EXCEPT ![found] = new_address])
            ELSE Some(Append(addresses[1], new_address))

\* Option<String>::unwrap_or_default
UnwrapOrDefault(opt) == IF opt = NoneOpt THEN "" ELSE opt[1]

\* IndexMap::insert: the value of a key the map has is replaced where it is,
\* a new key is appended
IndexMapInsert(map, key, value) ==
    LET hits == {i \in DOMAIN map : map[i][1] = key}
    IN IF hits = {}
       THEN Append(map, <<key, value>>)
       ELSE [map EXCEPT ![CHOOSE i \in hits : TRUE] = <<key, value>>]

\* Iterator::collect into an IndexMap
RECURSIVE IndexMapCollect(_)
IndexMapCollect(pairs) ==
    IF pairs = <<>>
    THEN <<>>
    ELSE LET n == Len(pairs)
         IN IndexMapInsert(IndexMapCollect(SubSeq(pairs, 1, n - 1)), pairs[n][1], pairs[n][2])

person_user_defined_update_or_insert(user, user_defined) ==
    LET old == IF user_defined = NoneOpt
               THEN <<>>
               ELSE IndexMapCollect([i \in DOMAIN user_defined[1] |->
                        <<UnwrapOrDefault(user_defined[1][i].key),
                          UnwrapOrDefault(user_defined[1][i].value)>>])
        m1 == IndexMapInsert(old, SCMA_MEMBER_STATUS_KEY, user.member_status)
        m2 == IndexMapInsert(m1, SCMA_TRIP_LEADER_STATUS_KEY, User_trip_leader_status(user))
        m3 == IndexMapInsert(m2, SCMA_POSITION_KEY, User_position(user))
    IN Some([i \in DOMAIN m3 |-> [key |-> Some(m3[i][1]), value |-> Some(m3[i][2])]])

\* An update that also takes the name of the user
update_with_name(person, user) ==
    [person EXCEPT
        !.phone_numbers =
            person_phone_numbers_update_or_insert(create_api_phone_number(user), @),
        !.addresses = person_addresses_update_or_insert(create_api_address(user), @),
        !.user_defined = person_user_defined_update_or_insert(user, @),
        !.names = Some(<<[display_name |-> Some(user.name),
                          unstructured_name |-> Some(user.name)]>>)]

\* PersonWrapper::update
update(person, user) ==
    [person EXCEPT
        !.phone_numbers =
            person_phone_numbers_update_or_insert(create_api_phone_number(user), @),
        !.addresses = person_addresses_update_or_insert(create_api_address(user), @),
        !.user_defined = person_user_defined_update_or_insert(user, @)]

(***************************************************************************)
(* gppl.rs: the persons of the People service and their conversions        *)
(***************************************************************************)
PEOPLE_BATCH_CREATE_MAX_CONTACTS == 50
PEOPLE_BATCH_GET_MAX_CONTACTS == 50
PEOPLE_BATCH_UPDATE_MAX_CONTACTS == 50
PERSON_FIELDS_UPDATE == "addresses,phoneNumbers,userDefined"

\* The resource name of the contact group of the run
GroupResourceName == "contactGroups/scma"

\* create_api_person: the api::Person of a user that has no contact yet
create_api_person(user, group_resource_name) ==
    [resource_name |-> NoneOpt,
     names |-> Some(<<[display_name |-> NoneOpt, unstructured_name |-> Some(user.name)]>>),
     email_addresses |-> Some(<<[type |-> Some("SCMA"), value |-> Some(user.email)]>>),
     addresses |-> Some(<<create_api_address(user)>>),
     phone_numbers |-> Some(<<create_api_phone_number(user)>>),
     memberships |-> Some(<<group_resource_name>>),
     user_defined |->
         Some(<<[key |-> Some(SCMA_MEMBER_STATUS_KEY), value |-> Some(user.member_status)],
                [key |-> Some(SCMA_TRIP_LEADER_STATUS_KEY),
                 value |-> Some(User_trip_leader_status(user))],
                [key |-> Some(SCMA_POSITION_KEY), value |-> Some(User_position(user))]>>)]

\* From<api::Person> for PersonWrapper: the resource name, the display name
\* of the first name, and the SCMA-typed email if there is one, otherwise the
\* first email; the api::Person is kept whole
PersonWrapperFrom(person) ==
    [resource_name |-> person.resource_name[1],
     name |-> person.names[1][1].display_name[1],
     email |-> IF person.email_addresses = NoneOpt
               THEN NoneOpt
               ELSE LET list == person.email_addresses[1]
                        found == FindType(list, Some("SCMA"))
                    IN IF found # 0 THEN list[found].value ELSE list[1].value,
     names |-> person.names,
     email_addresses |-> person.email_addresses,
     addresses |-> person.addresses,
     phone_numbers |-> person.phone_numbers,
     memberships |-> person.memberships,
     user_defined |-> person.user_defined]

\* people.batchCreateContacts as the service answers it: each contact gets
\* the next free resource name and its display name
CreatedPerson(person, resource_name) ==
    [person EXCEPT
        !.resource_name = Some(resource_name),
        !.names = Some(<<[display_name |-> person.names[1][1].unstructured_name,
                          unstructured_name |-> person.names[1][1].unstructured_name]>>)]

\* slice::chunks(n) of a Vec in hash order: the next chunk holds n of the
\* elements left, or all of them when fewer are left; which ones, the hash
\* order decides.  LeftOut(S, n) are the possible rests after the chunk.
RECURSIVE SubsetsOfSize(_, _)
SubsetsOfSize(S, k) ==
    IF k = 0
    THEN {{}}
    ELSE UNION {{r \cup {x} : r \in SubsetsOfSize(S \ {x}, k - 1)} : x \in S}

\* A loop that sends all of its input in one request
LeftOutNone(S, n) == {{}}

LeftOut(S, n) ==
    IF Cardinality(S) <= n THEN {{}} ELSE SubsetsOfSize(S, Cardinality(S) - n)

(***************************************************************************)
(* gcal.rs: GCal::acl_sync_ops                                             *)
(***************************************************************************)

\* api::AclRule, restricted to role and scope.value
RuleRecords == [role : Roles, value : Emails]

\* acl_sync_ops without the role filter
acl_sync_ops_nofilter(emails, rules) ==
    LET acl_readers == {rules[i].value : i \in DOMAIN rules}
        emailSet == Range(emails)
    IN [inserts |-> emailSet \ acl_readers,
        deletes |-> acl_readers \ emailSet]

acl_sync_ops(emails, rules) ==
    LET acl_readers == {rules[i].value : i \in {j \in DOMAIN rules : rules[j].role = "reader"}}
        emailSet == Range(emails)
    IN [inserts |-> emailSet \ acl_readers,
        deletes |-> acl_readers \ emailSet]

\* api::AclRule as acl.list returns it: the role, and the scope with its
\* type and its value, an Option<String> that a scope of the type "default"
\* (the public) comes without
ScopedRuleRecords ==
    {r \in [role : {"reader", "owner"}, scope_type : {"user", "group", "default"},
             value : {Some("a"), Some("b"), NoneOpt}] :
        (r.scope_type = "default") <=> (r.value = NoneOpt)}

\* acl_sync_ops on the listed rules: rule.scope.as_ref().unwrap().value
\* .as_ref().unwrap() is evaluated for every rule with the role reader and
\* panics on a None
acl_sync_ops_listed(emails, rules) ==
    LET readers == {i \in DOMAIN rules : rules[i].role = "reader"}
    IN IF \E i \in readers : rules[i].value = NoneOpt
       THEN [panic |-> TRUE, inserts |-> {}, deletes |-> {}]
       ELSE LET acl_readers == {rules[i].value[1] : i \in readers}
                emailSet == Range(emails)
            IN [panic |-> FALSE,
                inserts |-> emailSet \ acl_readers,
                deletes |-> acl_readers \ emailSet]

\* acl_delete: let rule_id = format!("user:{email}"), as the pair of the
\* scope type and the value that the id is made of
acl_delete_rule_id(email) == <<"user", email>>

(***************************************************************************)
(* gcal.rs: the adapter of events                                          *)
(***************************************************************************)

\* The ids of the source events: decimal strings, as sequences of digits
SourceIds == {<<i>> : i \in 1..MaxEvents}

\* The characters of an id: a decimal digit is its value, any other character
\* is its ASCII code ('+' and 'x')
PlusSign == 43
Letter == 120

\* str::parse::<u32> returns Ok: at least one digit, nothing but digits after
\* an optional '+' (which is skipped), and a value of at most u32::MAX
ParsesAsU32(str) ==
    LET d == IF str # <<>> /\ str[1] = PlusSign THEN Tail(str) ELSE str
        RECURSIVE StripZeros(_)
        StripZeros(x) == IF Len(x) > 1 /\ x[1] = 0 THEN StripZeros(Tail(x)) ELSE x
        v == StripZeros(d)
        U32MaxDigits == <<4, 2, 9, 4, 9, 6, 7, 2, 9, 5>>
        DigitsLeq(x, y) ==
            \/ x = y
            \/ \E k \in 1..Len(x) : x[k] < y[k] /\ \A j \in 1..(k - 1) : x[j] = y[j]
    IN /\ d # <<>>
       /\ \A k \in 1..Len(d) : d[k] \in 0..9
       /\ \/ Len(v) < Len(U32MaxDigits)
          \/ Len(v) = Len(U32MaxDigits) /\ DigitsLeq(v, U32MaxDigits)

\* str::parse::<u32> of a string that parses: the value of its digits
ParseU32(str) ==
    LET d == IF str # <<>> /\ str[1] = PlusSign THEN Tail(str) ELSE str
        RECURSIVE Val(_)
        Val(k) == IF k = 0 THEN 0 ELSE 10 * Val(k - 1) + d[k]
    IN Val(Len(d))

\* A formatting that keeps the last 5 digits
Format05Fixed(id) ==
    LET RECURSIVE Digits(_)
        Digits(n) == IF n < 10 THEN <<n>> ELSE Append(Digits(n \div 10), n % 10)
        RECURSIVE Pad(_)
        Pad(d) == IF Len(d) >= 5 THEN d ELSE Pad(<<0>> \o d)
        p == Pad(Digits(id))
    IN SubSeq(p, Len(p) - 4, Len(p))

\* format!("{id:05}"): the decimal digits of id, left-padded with zeros to a
\* width of 5 (wider numbers are not truncated)
Format05(id) ==
    LET RECURSIVE Digits(_)
        Digits(n) == IF n < 10 THEN <<n>> ELSE Append(Digits(n \div 10), n % 10)
        RECURSIVE Pad(_)
        Pad(d) == IF Len(d) >= 5 THEN d ELSE Pad(<<0>> \o d)
    IN Pad(Digits(id))

\* An id that is the same for every event: that of the remote event 99999
event_id_fixed(event) == <<9, 9, 9, 9, 9>>

event_id(event) == Format05(ParseU32(event.id))

\* The title, dates, location and description of the source events
EventData == <<"d1", "d2", "d3", "d4", "d5", "d6">>

\* model.rs Event: the id, and the data the run sends
SourceEvent(i) == [id |-> <<i>>, data |-> EventData[i]]

\* A remote event no source event maps to
ForeignId == <<9, 9, 9, 9, 9>>

RemoteIds == {Format05(ParseU32(id)) : id \in SourceIds} \cup {ForeignId}

\* The Err of a Result
Err == "err"

\* event_id as a Result: the ParseIntError of the parse is returned by `?`
event_id_result(event) ==
    IF ParsesAsU32(event.id) THEN event_id(event) ELSE Err

\* chrono NaiveDate as <<year, month, day>>: the days of a month
DaysInMonth(y, m) ==
    LET IsLeap == (y % 4 = 0 /\ y % 100 # 0) \/ y % 400 = 0
    IN IF m = 2 THEN (IF IsLeap THEN 29 ELSE 28)
       ELSE IF m \in {4, 6, 9, 11} THEN 30 ELSE 31

\* NaiveDate + Duration::days(1)
AddDay(date) ==
    LET y == date[1]
        m == date[2]
        d == date[3]
    IN IF d < DaysInMonth(y, m) THEN <<y, m, d + 1>>
       ELSE IF m < 12 THEN <<y, m + 1, 1>>
       ELSE <<y + 1, 1, 1>>

event_start(event) == event.start_date

\* An end that is the source's end date
event_end_same_day(event) == event.end_date

\* The end sent is always the day after the source's end date
event_end(event) == AddDay(event.end_date)

\* TryFrom<&Event> for api::Event: the id, start and end of the remote event,
\* or the error of the id (summary, description and location are copied text)
TryFromEvent(event) ==
    LET id == event_id_result(event)
    IN IF id = Err THEN [ok |-> FALSE, id |-> <<>>, start |-> <<>>, end |-> <<>>]
       ELSE [ok |-> TRUE, id |-> id, start |-> event_start(event),
             end |-> event_end(event)]

(***************************************************************************)
(* State                                                                   *)
(***************************************************************************)
VARIABLES
    opsUsers,       \* people_sync_ops: the users argument
    opsPeople,      \* people_sync_ops: the people argument
    opsResult,      \* people_sync_ops: the returned PersonSyncOpsResult
    aclOpsEmails,   \* acl_sync_ops: the emails argument
    aclOpsRules,    \* acl_sync_ops: the rules argument
    aclOpsResult,   \* acl_sync_ops: the returned AclSyncOpsResult
    called,         \* whether the function under study has been called and has returned
    mOrig,          \* update: the person as read from the contacts, before any merge
    mPrev,          \* update: the person before the last merge
    mPerson,        \* update: the person after the last merge
    mUsers,         \* update: the user of each successive merge
    mStep,          \* update: the number of merges done
    convEvents,     \* TryFrom<&Event>: the source events to convert
    convOut,        \* TryFrom<&Event>: the Result of each conversion done
    calendars,      \* the calendars of the account: the summary and description of each
    calendar_id,    \* GCal::calendar_id: the calendar the run works on, once located
    calInserts,     \* the number of calendars.insert requests sent
    scmaEmails,     \* process_users: the emails of the users read from the source
    email_aliases,  \* process_users: the map read from Cli::email_aliases_file
    resolved,       \* the calendar service: the email it stores for each email inserted
    cmd,            \* the path of main the run takes: "acl", "events", "pipeline", "people"
    dry_run,        \* Cli::dry_run
    result,         \* the Result of the run: "running", "ok", "err"
    faults,         \* the number of remote calls that have failed for a reason of the remote's
    run,            \* 1 in the first run of the program, 2 in the repeated one
    acl,            \* the calendar's ACL: the role of each email's rule, or None
    emails,         \* acl_sync: the desired emails
    owners,         \* Cli::calendar_owners
    notify_acl_insert, \* Cli::notify_acl_insert
    pc,             \* the position of the run
    newIdx,         \* GCal::new: the number of owners inserted
    acls,           \* acl_sync: the rules acl_list returned
    pageLen,        \* the calendar service: the most rules it returns in a page
    page_token,     \* acl_list: page_token
    rules,          \* acl_list: rules, the items of the pages got so far
    listCalls,      \* the page_token of each acl.list request sent, in order
    aclIns,         \* acl_sync: the inserts not yet started
    aclDel,         \* acl_sync: the deletes not yet started
    aclInflight,    \* acl_sync: the operations in flight
    aclFailed,      \* acl_sync: the operations that returned Err
    aclCalls,       \* the ACL write requests the program has sent
    events,         \* the source events
    cal,            \* the calendar's events: the data of each remote id, or None
    calStart,       \* cal at the start of the current run
    calPrev,        \* cal at the start of the run before, in a repeated run
    evPc,           \* the position of each event's unit of work
    evPatchRes,     \* each unit's patch response: None, "ok", "notFound", "error"
    evInsRes,       \* each unit's insert response: None, "ok", "error"
    users,          \* process_users: the users read from the source
    groupExists,    \* whether the contacts have the group of the run
    contacts,       \* the contacts: the api::Person of each resource name 1, 2, ..
    people,         \* people_sync: the members got so far
    member_resource_names, \* people_sync: the names contact_groups_get_member_resource_names returned
    lower,          \* people_batch_get: lower
    pplInserts,     \* people_batch_create: the users not yet sent
    pplUpdates,     \* people_batch_update: the merged persons not yet sent
    pplDeletes,     \* people_sync: ops.deletes, the ignored persons
    pplCalls        \* the requests sent to the People service, in order

opsVars == <<opsUsers, opsPeople, opsResult>>
aclOpsVars == <<aclOpsEmails, aclOpsRules, aclOpsResult>>
mergeVars == <<mOrig, mPrev, mPerson, mUsers, mStep>>
convVars == <<convEvents, convOut>>

fnVars == <<opsVars, aclOpsVars, mergeVars, convVars, called>>
runVars == <<cmd, dry_run, result, faults, run, pc>>
setupVars == <<calendars, calendar_id, calInserts, scmaEmails, email_aliases, resolved>>
listVars == <<pageLen, page_token, rules, listCalls>>
aclVars == <<acl, emails, owners, notify_acl_insert, newIdx, acls, listVars, aclIns, aclDel,
             aclInflight, aclFailed, aclCalls>>
evVars == <<events, cal, calStart, calPrev, evPc, evPatchRes, evInsRes>>
pplVars == <<users, groupExists, contacts, member_resource_names, people, lower, pplInserts,
             pplUpdates, pplDeletes, pplCalls>>
vars == <<fnVars, runVars, setupVars, aclVars, evVars, pplVars>>

NoPersonOps == [inserts |-> {}, deletes |-> {}, updates |-> {}]
NoAclOps == [inserts |-> {}, deletes |-> {}]

OpsIdle == opsUsers = <<>> /\ opsPeople = <<>> /\ opsResult = NoPersonOps
AclOpsIdle == aclOpsEmails = <<>> /\ aclOpsRules = <<>> /\ aclOpsResult = NoAclOps
NoPerson ==
    [resource_name |-> "", name |-> "", email |-> NoneOpt, phone_numbers |-> NoneOpt,
     addresses |-> NoneOpt, user_defined |-> NoneOpt]

MergeIdle ==
    /\ mOrig = NoPerson /\ mPrev = NoPerson /\ mPerson = NoPerson /\ mUsers = <<>>
    /\ mStep = 0

ConvIdle == convEvents = <<>> /\ convOut = <<>>

FnIdle == OpsIdle /\ AclOpsIdle /\ MergeIdle /\ ConvIdle /\ called = FALSE

NoAcl == [e \in Emails |-> None]
NoCal == [r \in RemoteIds |-> None]

\* Cli::calendar, by its default
CalendarName == "SCMA"

\* gcal.rs CALENDAR_DESCRIPTION (the text is the constant's)
CALENDAR_DESCRIPTION == "This calendar is synced daily with the SCMA event calendar"

\* A calendar service that stores every email as it is inserted
NoResolution == [e \in Emails |-> e]

\* An empty map of aliases
NoAliases == [e \in {} |-> e]

SetupIdle ==
    /\ calendars = <<>> /\ calendar_id = NoneOpt /\ calInserts = 0
    /\ scmaEmails = <<>> /\ email_aliases = NoAliases /\ resolved = NoResolution

RunIdle ==
    /\ cmd = None /\ dry_run = FALSE /\ result = "ok" /\ faults = 0 /\ run = 1
    /\ pc = "done" /\ SetupIdle

AclIdle ==
    /\ emails = <<>> /\ acls = <<>> /\ aclIns = {} /\ aclDel = {} /\ aclInflight = {}
    /\ aclFailed = {}
    /\ page_token = NoneOpt /\ rules = <<>> /\ listCalls = <<>>

CalIdle ==
    /\ acl = NoAcl /\ owners = <<>> /\ notify_acl_insert = FALSE /\ newIdx = 0
    /\ aclCalls = {} /\ pageLen = Cardinality(Emails)

EvIdle ==
    /\ events = <<>> /\ cal = NoCal /\ calStart = NoCal /\ calPrev = NoCal
    /\ evPc = <<>> /\ evPatchRes = <<>> /\ evInsRes = <<>>

PplIdle ==
    /\ users = <<>> /\ groupExists = FALSE /\ contacts = <<>> /\ people = <<>>
    /\ member_resource_names = <<>>
    /\ lower = 0 /\ pplInserts = {} /\ pplUpdates = {} /\ pplDeletes = {}
    /\ pplCalls = <<>>

(***************************************************************************)
(* The diff functions applied to bounded inputs                            *)
(***************************************************************************)
InitPeopleOps ==
    /\ opsUsers \in SeqsUpTo(OpsUserRecords, MaxUsers)
    /\ opsPeople \in SeqsUpTo(OpsPersonRecords, MaxPeople)
    /\ opsResult = NoPersonOps
    /\ called = FALSE
    /\ AclOpsIdle /\ MergeIdle
    /\ RunIdle /\ AclIdle /\ CalIdle /\ EvIdle /\ PplIdle /\ ConvIdle

CallPeopleSyncOps ==
    /\ ~called
    /\ called' = TRUE
    /\ opsResult' = people_sync_ops(opsUsers, opsPeople)
    /\ UNCHANGED <<opsUsers, opsPeople, aclOpsVars, mergeVars, convVars, runVars, setupVars, aclVars, evVars,
                   pplVars>>

SpecPeopleOps == InitPeopleOps /\ [][CallPeopleSyncOps]_vars

InitAclOps ==
    /\ aclOpsEmails \in SeqsUpTo(Emails, MaxUsers)
    /\ aclOpsRules \in SeqsUpTo(RuleRecords, MaxRules)
    /\ aclOpsResult = NoAclOps
    /\ called = FALSE
    /\ OpsIdle /\ MergeIdle
    /\ RunIdle /\ AclIdle /\ CalIdle /\ EvIdle /\ PplIdle /\ ConvIdle

CallAclSyncOps ==
    /\ ~called
    /\ called' = TRUE
    /\ aclOpsResult' = acl_sync_ops(aclOpsEmails, aclOpsRules)
    /\ UNCHANGED <<aclOpsEmails, aclOpsRules, opsVars, mergeVars, convVars, runVars, setupVars, aclVars, evVars,
                   pplVars>>

SpecAclOps == InitAclOps /\ [][CallAclSyncOps]_vars

InitAclListed ==
    /\ aclOpsEmails \in SeqsUpTo(OpsEmails, MaxUsers - 1)
    /\ aclOpsRules \in SeqsUpTo(ScopedRuleRecords, MaxRules)
    /\ aclOpsResult = NoAclOps
    /\ called = FALSE
    /\ OpsIdle /\ MergeIdle
    /\ RunIdle /\ AclIdle /\ CalIdle /\ EvIdle /\ PplIdle /\ ConvIdle

CallAclSyncOpsListed ==
    /\ ~called
    /\ called' = TRUE
    /\ aclOpsResult' = acl_sync_ops_listed(aclOpsEmails, aclOpsRules)
    /\ UNCHANGED <<aclOpsEmails, aclOpsRules, opsVars, mergeVars, convVars, runVars, setupVars, aclVars, evVars,
                   pplVars>>

SpecAclListed == InitAclListed /\ [][CallAclSyncOpsListed]_vars

(***************************************************************************)
(* PersonWrapper::update applied to bounded inputs, then applied again     *)
(* with changed user data                                                  *)
(***************************************************************************)
EntryTypes == {Some("SCMA"), Some("home"), NoneOpt}

PhoneEntries == [type : EntryTypes, value : {Some("p0"), Some("q0")}]

AddressEntries == [type : {Some("SCMA"), Some("home")}, formatted_value : {Some("a0")}]

OptionalLists(S) == {NoneOpt} \cup {Some(l) : l \in SeqsUpTo(S, MaxEntries)}

MergeUser(phone, address) ==
    [email |-> "a", name |-> "n1", phone |-> phone, address |-> address, city |-> "city",
     state |-> "CA", zipcode |-> "90000", member_status |-> "RM",
     trip_leader_status |-> NoneOpt, position |-> NoneOpt]

InitMerge ==
    /\ OpsIdle /\ AclOpsIdle /\ called = FALSE
    /\ RunIdle /\ AclIdle /\ CalIdle /\ EvIdle /\ PplIdle /\ ConvIdle
    /\ \E phones \in OptionalLists(PhoneEntries), addrs \in OptionalLists(AddressEntries),
          ud \in {NoneOpt, Some(<<[key |-> Some("Nickname"), value |-> Some("x")]>>)} :
          mOrig = [resource_name |-> "p1", name |-> "n1", email |-> Some("a"),
                   phone_numbers |-> phones, addresses |-> addrs, user_defined |-> ud]
    /\ mPrev = mOrig /\ mPerson = mOrig
    /\ \E ph1 \in {Some("p1"), NoneOpt}, ph2 \in {Some("p2"), NoneOpt} :
          mUsers = <<MergeUser(ph1, "a1"), MergeUser(ph2, "a2")>>
    /\ mStep = 0

CallUpdate ==
    /\ mStep < Len(mUsers)
    /\ mStep' = mStep + 1
    /\ mPrev' = mPerson
    /\ mPerson' = update(mPerson, mUsers[mStep + 1])
    /\ UNCHANGED <<mOrig, mUsers, opsVars, aclOpsVars, convVars, called, runVars, setupVars, aclVars, evVars,
                   pplVars>>

SpecMerge == InitMerge /\ [][CallUpdate]_vars

\* api::UserDefined entries of a contact: a key of the user's own, one of the
\* SCMA keys, or none
UserDefinedEntries ==
    [key : {Some("Nickname"), Some(SCMA_POSITION_KEY), NoneOpt},
     value : {Some("x"), Some("y"), NoneOpt}]

\* update applied to persons that differ in their user-defined entries
InitMergeUserDefined ==
    /\ OpsIdle /\ AclOpsIdle /\ called = FALSE
    /\ RunIdle /\ AclIdle /\ CalIdle /\ EvIdle /\ PplIdle /\ ConvIdle
    /\ \E ud \in OptionalLists(UserDefinedEntries) :
          mOrig = [resource_name |-> "p1", name |-> "n1", email |-> Some("a"),
                   phone_numbers |-> NoneOpt, addresses |-> NoneOpt, user_defined |-> ud]
    /\ mPrev = mOrig /\ mPerson = mOrig
    /\ \E pos1 \in {Some("chair"), NoneOpt}, pos2 \in {Some("chair"), NoneOpt} :
          mUsers = <<[MergeUser(Some("p1"), "a1") EXCEPT !.position = pos1],
                     [MergeUser(Some("p1"), "a1") EXCEPT !.position = pos2]>>
    /\ mStep = 0

SpecMergeUserDefined == InitMergeUserDefined /\ [][CallUpdate]_vars

\* update applied twice with the same user, as two syncs of an unchanged
\* user apply it: to persons that differ in all three lists
InitMergeRepeated ==
    /\ OpsIdle /\ AclOpsIdle /\ called = FALSE
    /\ RunIdle /\ AclIdle /\ CalIdle /\ EvIdle /\ PplIdle /\ ConvIdle
    /\ \E phones \in OptionalLists(PhoneEntries), addrs \in OptionalLists(AddressEntries),
          ud \in OptionalLists([key : {Some("Nickname"), Some(SCMA_POSITION_KEY)},
                                value : {Some("x")}]) :
          mOrig = [resource_name |-> "p1", name |-> "n1", email |-> Some("a"),
                   phone_numbers |-> phones, addresses |-> addrs, user_defined |-> ud]
    /\ mPrev = mOrig /\ mPerson = mOrig
    /\ \E ph \in {Some("p1"), NoneOpt}, pos \in {Some("chair"), NoneOpt} :
          mUsers = <<[MergeUser(ph, "a1") EXCEPT !.position = pos],
                     [MergeUser(ph, "a1") EXCEPT !.position = pos]>>
    /\ mStep = 0

SpecMergeRepeated == InitMergeRepeated /\ [][CallUpdate]_vars

\* ---- TryFrom<&Event> for api::Event, called on events of the source ----

\* The longest event, in days after its first
MaxSpan == 2

\* The days around the end of every month of a common and of a leap year
ConvDates ==
    {<<y, m, d>> : y \in {2023, 2024}, m \in 1..12, d \in {1, 2, 27, 28, 29, 30, 31}}
        \cap {date \in {2023, 2024} \X (1..12) \X (1..31) :
                date[3] <= DaysInMonth(date[1], date[2])}

\* The ids the source may carry: short and padded numbers, numbers of 5 and of
\* more digits, a signed number, and strings that are no u32
ConvIds ==
    {<<1>>, <<0>>, <<0, 1>>, <<0, 0, 0, 0, 1>>, <<0, 0, 0, 0, 0, 1>>, <<1, 2>>,
     <<5, 2, 7>>, <<9, 9, 9, 9, 9>>, <<1, 0, 0, 0, 0, 0>>, <<1, 2, 3, 4, 5, 6>>,
     <<PlusSign, 1>>, <<>>, <<Letter>>, <<1, Letter>>,
     <<4, 2, 9, 4, 9, 6, 7, 2, 9, 6>>}

\* model.rs Event: the id and the dates, the end span days after the start
ConvEvent(id, start, span) ==
    LET RECURSIVE AddDays(_, _)
        AddDays(date, n) == IF n = 0 THEN date ELSE AddDays(AddDay(date), n - 1)
    IN [id |-> id, start_date |-> start, end_date |-> AddDays(start, span)]

InitConvert ==
    /\ convEvents \in
         {<<ConvEvent(<<1>>, start, span)>> : start \in ConvDates, span \in 0..MaxSpan}
           \cup {<<ConvEvent(a, <<2024, 1, 1>>, 0), ConvEvent(b, <<2024, 1, 1>>, 0)>> :
                   a \in ConvIds, b \in ConvIds}
    /\ convOut = <<>>
    /\ OpsIdle /\ AclOpsIdle /\ MergeIdle /\ called = FALSE
    /\ RunIdle /\ AclIdle /\ CalIdle /\ EvIdle /\ PplIdle

\* One call of api::Event::try_from on the next event
CallTryFrom ==
    /\ Len(convOut) < Len(convEvents)
    /\ convOut' = Append(convOut, TryFromEvent(convEvents[Len(convOut) + 1]))
    /\ UNCHANGED <<convEvents, opsVars, aclOpsVars, mergeVars, called, runVars, setupVars, aclVars,
                   evVars, pplVars>>

SpecConvert == InitConvert /\ [][CallTryFrom]_vars

(***************************************************************************)
(* The calendar service, as the program's calls see it                     *)
(***************************************************************************)

\* The rules acl.list returns: one rule per email that has one
EmailOrder == <<"a", "b", "c">>

AclRules(a) ==
    SelectSeq([i \in DOMAIN EmailOrder |-> [role |-> a[EmailOrder[i]], value |-> EmailOrder[i]]],
              LAMBDA r : r.role # None)

\* acl.insert of a rule for the scope user:<email>: the rule of the email the
\* service resolves it to gets the role
AclAfterInsert(a, email, role) == [a EXCEPT ![resolved[email]] = role]

\* acl.delete of the rule user:<email>
AclAfterDelete(a, email) == [a EXCEPT ![email] = None]

\* A remote call may fail for a reason of the remote's (rate limit, network)
CanFault == faults < MaxFaults

(***************************************************************************)
(* gcal.rs: GCal::new, the owner inserts                                   *)
(***************************************************************************)
CalCmds == {"acl", "events", "pipeline"}

\* The request acl_insert builds and sends
InsertCall(email, role, send_notifications) ==
    [method |-> "insert", email |-> email, role |-> role,
     send_notifications |-> send_notifications]

\* The request acl_delete builds and sends: the rule id is "user:" + email
DeleteCall(email) ==
    [method |-> "delete", email |-> email, role |-> None, send_notifications |-> FALSE]

\* acl_insert(calendar_owner, "owner", SendNotifications(false)) for the next owner
NewOwnerInsert ==
    /\ cmd \in CalCmds /\ pc = "new" /\ newIdx < Len(owners)
    /\ LET owner == owners[newIdx + 1]
       IN \/ /\ dry_run
             /\ newIdx' = newIdx + 1
             /\ UNCHANGED <<acl, aclCalls, faults, result, pc>>
          \/ /\ ~dry_run
             /\ aclCalls' = aclCalls \cup {InsertCall(owner, "owner", FALSE)}
             /\ acl' = AclAfterInsert(acl, owner, "owner")
             /\ newIdx' = newIdx + 1
             /\ UNCHANGED <<faults, result, pc>>
          \/ /\ ~dry_run /\ CanFault
             /\ aclCalls' = aclCalls \cup {InsertCall(owner, "owner", FALSE)}
             /\ faults' = faults + 1
             /\ result' = "err" /\ pc' = "done"
             /\ UNCHANGED <<acl, newIdx>>
    /\ UNCHANGED <<fnVars, setupVars, cmd, dry_run, run, emails, owners, notify_acl_insert,
                   acls, listVars, aclIns, aclDel, aclInflight, aclFailed, evVars, pplVars>>

\* A GCal::new that returns Ok(gcal) without its loop over the owners
NewDoneEarly ==
    /\ cmd \in CalCmds /\ pc = "new"
    /\ pc' = IF cmd = "acl" THEN "list" ELSE "pool"
    /\ UNCHANGED <<fnVars, setupVars, cmd, dry_run, result, faults, run, aclVars, evVars, pplVars>>

\* GCal::new returns Ok(gcal); main goes on to acl_sync, to write or to the
\* pipeline's pool
NewDone ==
    /\ cmd \in CalCmds /\ pc = "new" /\ newIdx = Len(owners)
    /\ pc' = IF cmd = "acl" THEN "list" ELSE "pool"
    /\ UNCHANGED <<fnVars, setupVars, cmd, dry_run, result, faults, run, aclVars, evVars, pplVars>>

(***************************************************************************)
(* gcal.rs: GCal::calendars_get_or_insert_by_name; main.rs: the aliases    *)
(***************************************************************************)

\* A lookup that creates the calendar in a dry run too
CannotCreateNever == FALSE

\* if dry_run { return Err("Cannot create calendar during dry run".into()) }
CannotCreate == dry_run

\* calendar_list.list, the search for the name among list.items, and
\* calendars.insert when no entry has it.  The list is taken as the service
\* returns it in one response: the function reads no next_page_token.
CalendarsGetOrInsertByName ==
    /\ cmd \in CalCmds /\ pc = "calendar"
    /\ LET found == {i \in DOMAIN calendars : calendars[i].summary = CalendarName}
       IN \/ /\ CanFault
             /\ faults' = faults + 1
             /\ result' = "err" /\ pc' = "done"
             /\ UNCHANGED <<calendars, calendar_id, calInserts>>
          \/ /\ found # {}
             /\ calendar_id' = Some(CHOOSE i \in found : \A j \in found : i <= j)
             /\ pc' = "new"
             /\ UNCHANGED <<calendars, calInserts, faults, result>>
          \/ /\ found = {} /\ CannotCreate
             /\ result' = "err" /\ pc' = "done"
             /\ UNCHANGED <<calendars, calendar_id, calInserts, faults>>
          \/ /\ found = {} /\ ~CannotCreate
             /\ calInserts' = calInserts + 1
             /\ calendars' = Append(calendars, [summary |-> CalendarName,
                                                description |-> CALENDAR_DESCRIPTION])
             /\ calendar_id' = Some(Len(calendars) + 1)
             /\ pc' = "new"
             /\ UNCHANGED <<faults, result>>
          \/ /\ found = {} /\ ~CannotCreate /\ CanFault
             /\ calInserts' = calInserts + 1
             /\ faults' = faults + 1
             /\ result' = "err" /\ pc' = "done"
             /\ UNCHANGED <<calendars, calendar_id>>
    /\ UNCHANGED <<fnVars, cmd, dry_run, run, scmaEmails, email_aliases, resolved, aclVars,
                   evVars, pplVars>>

\* A process_users that passes the emails of the users on as they are
EmailsUnmapped(list, table) == list

\* users.iter().map(|user| user.email.as_str())
\*      .map(|email| email_aliases.get(email).map(AsRef::as_ref).unwrap_or(email))
EmailsMapped(list, table) ==
    [i \in DOMAIN list |-> IF list[i] \in DOMAIN table THEN table[list[i]] ELSE list[i]]

\* process_users with the gcal output, up to GCal::new
ProcessUsers ==
    /\ cmd = "acl" /\ pc = "aliases"
    /\ emails' = EmailsMapped(scmaEmails, email_aliases)
    /\ pc' = "calendar"
    /\ UNCHANGED <<fnVars, setupVars, cmd, dry_run, result, faults, run, acl, owners,
                   notify_acl_insert, newIdx, acls, listVars, aclIns, aclDel, aclInflight,
                   aclFailed, aclCalls, evVars, pplVars>>

(***************************************************************************)
(* gcal.rs: GCal::acl_sync                                                 *)
(***************************************************************************)

\* A pool that goes on after a unit has returned Err
TryCollectGoesOn == "pool"

\* try_collect::<Vec<_>>().await?: the position of the run after a unit of
\* the pool has returned Err
TryCollectOnErr == "done"

\* acl_sync without the removal of the owners
RemoveOwnersNot(ops, ownerList) == ops

\* "Remove owners so that we don't operator on them"
RemoveOwners(ops, ownerList) ==
    [inserts |-> ops.inserts \ Range(ownerList),
     deletes |-> ops.deletes \ Range(ownerList)]

\* acl.list of the calendar with a page token: the next pageLen rules after
\* the ones the token stands for, and a next_page_token while rules are left
acl_list_page(token) ==
    LET all == AclRules(acl)
        from == IF token = NoneOpt THEN 0 ELSE token[1]
        to == IF from + pageLen < Len(all) THEN from + pageLen ELSE Len(all)
    IN [items |-> SubSeq(all, from + 1, to),
        next_page_token |-> IF to < Len(all) THEN Some(to) ELSE NoneOpt]

\* A list that keeps the last page only
RulesReplace(acc, next_rules) == next_rules

\* rules.append(&mut next_rules)
RulesAppend(acc, next_rules) == acc \o next_rules

\* A loop that ends after its first page
BreakAlways(token) == TRUE

\* if page_token.is_none() { break; }
Break(token) == token = NoneOpt

\* One iteration of the loop of acl_list: a page request with the page_token
\* held.  An Err is returned by `?` through acl_sync, and the rules got so far
\* are dropped.  After the last page acl_sync goes on with acl_sync_ops and
\* the removal of the owners, up to the pool.
AclList ==
    /\ cmd = "acl" /\ pc = "list"
    /\ listCalls' = Append(listCalls, page_token)
    /\ \/ /\ CanFault
          /\ faults' = faults + 1
          /\ result' = "err" /\ pc' = "done"
          /\ rules' = <<>>
          /\ UNCHANGED <<page_token, acls, aclIns, aclDel>>
       \/ /\ LET rsp == acl_list_page(page_token)
             IN /\ rules' = RulesAppend(rules, rsp.items)
                /\ page_token' = rsp.next_page_token
          /\ IF Break(page_token')
             THEN /\ acls' = rules'
                  /\ LET ops == RemoveOwners(acl_sync_ops(emails, acls'), owners)
                     IN aclIns' = ops.inserts /\ aclDel' = ops.deletes
                  /\ pc' = "pool"
             ELSE UNCHANGED <<acls, aclIns, aclDel, pc>>
          /\ UNCHANGED <<faults, result>>
    /\ UNCHANGED <<fnVars, setupVars, cmd, dry_run, run, acl, emails, owners, notify_acl_insert,
                   newIdx, pageLen, aclInflight, aclFailed, aclCalls, evVars, pplVars>>

\* buffer_unordered(CONCURRENT_REQUESTS_ACL) takes the next operation of the
\* stream (the inserts, then the deletes, each in hash order) while fewer
\* than its width are in flight
AclStart ==
    /\ cmd = "acl" /\ pc = "pool"
    /\ Cardinality(aclInflight) < CONCURRENT_REQUESTS_ACL
    /\ \/ /\ \E e \in aclIns :
                /\ aclIns' = aclIns \ {e}
                /\ aclInflight' = aclInflight \cup {[op |-> "Insert", email |-> e]}
          /\ UNCHANGED aclDel
       \/ /\ aclIns = {}
          /\ \E e \in aclDel :
                /\ aclDel' = aclDel \ {e}
                /\ aclInflight' = aclInflight \cup {[op |-> "Delete", email |-> e]}
          /\ UNCHANGED aclIns
    /\ UNCHANGED <<fnVars, setupVars, runVars, acl, emails, owners, notify_acl_insert, newIdx,
                   acls, listVars, aclFailed, aclCalls, evVars, pplVars>>

\* The pool polls its futures only once it is full or the stream is exhausted
AclPoolFilled ==
    \/ Cardinality(aclInflight) >= CONCURRENT_REQUESTS_ACL
    \/ aclIns = {} /\ aclDel = {}

\* A reader insert that never notifies
AclCallSilent(unit) ==
    IF unit.op = "Insert"
    THEN InsertCall(unit.email, "reader", FALSE)
    ELSE DeleteCall(unit.email)

AclCallOf(unit) ==
    IF unit.op = "Insert"
    THEN InsertCall(unit.email, "reader", notify_acl_insert)
    ELSE DeleteCall(unit.email)

AclAfter(a, unit) ==
    IF unit.op = "Insert"
    THEN AclAfterInsert(a, unit.email, "reader")
    ELSE AclAfterDelete(a, unit.email)

\* acl_insert_or_delete of a unit in flight.  An Err ends try_collect: the
\* run returns it, the other units in flight are dropped where they are and
\* the rest of the stream is never started.
AclInsertOrDelete ==
    /\ cmd = "acl" /\ pc = "pool" /\ AclPoolFilled
    /\ \E unit \in aclInflight :
          \/ /\ dry_run
             /\ aclInflight' = aclInflight \ {unit}
             /\ UNCHANGED <<acl, aclCalls, aclFailed, faults, result, pc>>
          \/ /\ ~dry_run
             /\ aclCalls' = aclCalls \cup {AclCallOf(unit)}
             /\ acl' = AclAfter(acl, unit)
             /\ aclInflight' = aclInflight \ {unit}
             /\ UNCHANGED <<aclFailed, faults, result, pc>>
          \/ /\ ~dry_run /\ CanFault
             /\ aclCalls' = aclCalls \cup {AclCallOf(unit)}
             /\ faults' = faults + 1
             /\ result' = "err" /\ pc' = TryCollectOnErr
             /\ aclInflight' = aclInflight \ {unit}
             /\ aclFailed' = aclFailed \cup {unit}
             /\ UNCHANGED acl
    /\ UNCHANGED <<fnVars, setupVars, cmd, dry_run, run, emails, owners, notify_acl_insert, newIdx,
                   acls, listVars, aclIns, aclDel, evVars, pplVars>>

\* try_collect has collected every unit: acl_sync returns Ok(())
AclDone ==
    /\ cmd = "acl" /\ pc = "pool"
    /\ aclIns = {} /\ aclDel = {} /\ aclInflight = {}
    /\ result' = "ok" /\ pc' = "done"
    /\ UNCHANGED <<fnVars, setupVars, cmd, dry_run, faults, run, aclVars, evVars, pplVars>>

(***************************************************************************)
(* gcal.rs: GCal::write, events_patch_or_insert; main.rs: the pipeline     *)
(***************************************************************************)
EvCmds == {"events", "pipeline"}

InFlightPcs == {"fetch", "patch", "insert"}

EvInFlight == {i \in DOMAIN evPc : evPc[i] \in InFlightPcs}

EvQueued == {i \in DOMAIN evPc : evPc[i] = "queued"}

EvFailed == {i \in DOMAIN evPc : evPc[i] = "failed"}

EvDropped == {i \in DOMAIN evPc : evPc[i] = "dropped"}

\* A pool as wide as the list of events
EvWidthOfList == Len(events)

\* The width of the pool: GCal::write's, or process_events'
EvWidth == IF cmd = "pipeline" THEN MAIN_CONCURRENT_REQUESTS ELSE CONCURRENT_REQUESTS

Min(S) == CHOOSE x \in S : \A y \in S : x <= y

\* buffer_unordered takes the next event of the list while fewer than its
\* width are in flight.  A unit of the pipeline is scma_to_gcal, which
\* fetches the event's details first.
EvStart ==
    /\ cmd \in EvCmds /\ pc = "pool"
    /\ EvQueued # {}
    /\ Cardinality(EvInFlight) < EvWidth
    /\ evPc' = [evPc EXCEPT ![Min(EvQueued)] = IF cmd = "pipeline" THEN "fetch" ELSE "patch"]
    /\ UNCHANGED <<fnVars, setupVars, runVars, aclVars, events, cal, calStart, calPrev,
                   evPatchRes, evInsRes, pplVars>>

EvPoolFilled == Cardinality(EvInFlight) >= EvWidth \/ EvQueued = {}

\* try_collect returns the first Err: the unit has failed, the other units
\* in flight are dropped where they are, the queued ones never start
FailFast(i) ==
    [j \in DOMAIN evPc |->
        IF j = i THEN "failed"
        ELSE IF evPc[j] \in InFlightPcs THEN "dropped" ELSE evPc[j]]

\* An Err(_) arm that gives up instead of inserting
PatchErrGivesUp == "done"

\* An Err(_) arm that sends the patch again
PatchErrRetries == "patch"

\* The Err(_) arm of the match on the patch's result: the unit goes on to
\* events.insert
PatchErrArm == "insert"

\* scma_to_gcal: web.fetch_event_details(event).await?
EvFetch(i) ==
    /\ cmd = "pipeline" /\ pc = "pool" /\ EvPoolFilled
    /\ evPc[i] = "fetch"
    /\ \/ /\ evPc' = [evPc EXCEPT ![i] = "patch"]
          /\ UNCHANGED <<faults, result, pc>>
       \/ /\ CanFault
          /\ faults' = faults + 1
          /\ evPc' = FailFast(i)
          /\ result' = "err" /\ pc' = TryCollectOnErr
    /\ UNCHANGED <<fnVars, setupVars, cmd, dry_run, run, aclVars, events, cal, calStart,
                   calPrev, evPatchRes, evInsRes, pplVars>>

\* events_patch_or_insert up to the match on the patch's result: nothing is
\* sent in a dry run; otherwise events.patch, which the service answers with
\* the patched event, or with an error when it has no event of that id
EvPatch(i) ==
    /\ cmd \in EvCmds /\ pc = "pool" /\ EvPoolFilled
    /\ evPc[i] = "patch"
    /\ LET id == event_id(events[i])
       IN \/ /\ dry_run
             /\ evPc' = [evPc EXCEPT ![i] = "done"]
             /\ UNCHANGED <<cal, evPatchRes, faults>>
          \/ /\ ~dry_run /\ cal[id] # None
             /\ cal' = [cal EXCEPT ![id] = events[i].data]
             /\ evPatchRes' = [evPatchRes EXCEPT ![i] = "ok"]
             /\ evPc' = [evPc EXCEPT ![i] = "done"]
             /\ UNCHANGED faults
          \/ /\ ~dry_run /\ cal[id] = None
             /\ evPatchRes' = [evPatchRes EXCEPT ![i] = "notFound"]
             /\ evPc' = [evPc EXCEPT ![i] = PatchErrArm]
             /\ UNCHANGED <<cal, faults>>
          \/ /\ ~dry_run /\ CanFault
             /\ faults' = faults + 1
             /\ evPatchRes' = [evPatchRes EXCEPT ![i] = "error"]
             /\ evPc' = [evPc EXCEPT ![i] = PatchErrArm]
             /\ UNCHANGED cal
    /\ UNCHANGED <<fnVars, setupVars, cmd, dry_run, result, run, pc, aclVars, events, calStart,
                   calPrev, evInsRes, pplVars>>

\* The Err(_) arm: events.insert, which the service refuses when it has an
\* event of that id
EvInsert(i) ==
    /\ cmd \in EvCmds /\ pc = "pool" /\ EvPoolFilled
    /\ evPc[i] = "insert"
    /\ LET id == event_id(events[i])
       IN \/ /\ cal[id] = None
             /\ cal' = [cal EXCEPT ![id] = events[i].data]
             /\ evInsRes' = [evInsRes EXCEPT ![i] = "ok"]
             /\ evPc' = [evPc EXCEPT ![i] = "done"]
             /\ UNCHANGED <<faults, result, pc>>
          \/ /\ cal[id] # None
             /\ evInsRes' = [evInsRes EXCEPT ![i] = "error"]
             /\ evPc' = FailFast(i)
             /\ result' = "err" /\ pc' = TryCollectOnErr
             /\ UNCHANGED <<cal, faults>>
          \/ /\ cal[id] = None /\ CanFault
             /\ faults' = faults + 1
             /\ evInsRes' = [evInsRes EXCEPT ![i] = "error"]
             /\ evPc' = FailFast(i)
             /\ result' = "err" /\ pc' = TryCollectOnErr
             /\ UNCHANGED cal
    /\ UNCHANGED <<fnVars, setupVars, cmd, dry_run, run, aclVars, events, calStart, calPrev,
                   evPatchRes, pplVars>>

\* try_collect has collected every unit: the run returns Ok(())
EvDone ==
    /\ cmd \in EvCmds /\ pc = "pool"
    /\ \A i \in DOMAIN evPc : evPc[i] = "done"
    /\ result' = "ok" /\ pc' = "done"
    /\ UNCHANGED <<fnVars, setupVars, cmd, dry_run, faults, run, aclVars, evVars, pplVars>>

(***************************************************************************)
(* gppl.rs: GPpl::new, GPpl::people_sync                                   *)
(***************************************************************************)
PplCall(method, keys) == [method |-> method, keys |-> keys]

\* contactGroups.get: the resource names of the contacts that are members
\* of the group
InGroup(resource_name) ==
    /\ contacts[resource_name].memberships # NoneOpt
    /\ GroupResourceName \in Range(contacts[resource_name].memberships[1])

GroupMembers == SelectSeq([i \in DOMAIN contacts |-> i], InGroup)

\* contact_groups_get_member_resource_names asks contactGroups.get once,
\* with max_members(CONTACT_GROUPS_GET_MAX_MEMBERS), and takes the one
\* response: at most that many names come back. Which ones the service
\* picks of a larger group is not said: any run of consecutive members
CONTACT_GROUPS_GET_MAX_MEMBERS == 999

ReturnedMembers ==
    LET all == GroupMembers
        m == Min({Len(all), CONTACT_GROUPS_GET_MAX_MEMBERS})
    IN {SubSeq(all, k + 1, k + m) : k \in 0..(Len(all) - m)}

\* GPpl::new: contact_groups_get_or_create_by_name lists the groups and
\* creates the group when none has the name, in a dry run too
GPplNew ==
    /\ cmd = "people" /\ pc = "new"
    /\ LET list == PplCall("contactGroups.list", {})
           create == PplCall("contactGroups.create", {GroupResourceName})
       IN \/ /\ CanFault
             /\ pplCalls' = Append(pplCalls, list)
             /\ faults' = faults + 1
             /\ result' = "err" /\ pc' = "done"
             /\ UNCHANGED groupExists
          \/ /\ groupExists
             /\ pplCalls' = Append(pplCalls, list)
             /\ pc' = "members"
             /\ UNCHANGED <<faults, result, groupExists>>
          \/ /\ ~groupExists
             /\ pplCalls' = pplCalls \o <<list, create>>
             /\ groupExists' = TRUE
             /\ pc' = "members"
             /\ UNCHANGED <<faults, result>>
          \/ /\ ~groupExists /\ CanFault
             /\ pplCalls' = pplCalls \o <<list, create>>
             /\ faults' = faults + 1
             /\ result' = "err" /\ pc' = "done"
             /\ UNCHANGED groupExists
    /\ UNCHANGED <<fnVars, setupVars, cmd, dry_run, run, aclVars, evVars, users, contacts, people, lower,
                   pplInserts, pplUpdates, pplDeletes, member_resource_names>>

\* A people_sync that updates the persons of ops.deletes too
PplOpsDeletesUpdated(members) ==
    LET ops == people_sync_ops(users, members)
    IN /\ pplInserts' = ops.inserts
       /\ pplUpdates' = ops.updates
                          \cup (IF users = <<>> THEN {}
                                ELSE {<<users[1], p>> : p \in ops.deletes})
       /\ pplDeletes' = ops.deletes
       /\ pc' = "create"

\* A people_sync that goes from the diff to people_batch_update
PplOpsUpdateFirst(members) ==
    LET ops == people_sync_ops(users, members)
    IN /\ pplInserts' = ops.inserts
       /\ pplUpdates' = {update(up[2], up[1]) : up \in ops.updates}
       /\ pplDeletes' = ops.deletes
       /\ pc' = "update"

\* people_sync from the members it has got: people_sync_ops, then on to
\* people_batch_create
PplOpsOf(members) ==
    LET ops == people_sync_ops(users, members)
    IN /\ pplInserts' = ops.inserts
       /\ pplUpdates' = ops.updates
       /\ pplDeletes' = ops.deletes
       /\ pc' = "create"

\* people_sync: contact_groups_get_member_resource_names; without members
\* people_batch_get is not called
PplMembers ==
    /\ cmd = "people" /\ pc = "members"
    /\ pplCalls' = Append(pplCalls, PplCall("contactGroups.get", {GroupResourceName}))
    /\ \/ /\ CanFault
          /\ faults' = faults + 1
          /\ result' = "err" /\ pc' = "done"
          /\ UNCHANGED <<member_resource_names, people, lower, pplInserts, pplUpdates,
                         pplDeletes>>
       \/ /\ member_resource_names' \in ReturnedMembers
          /\ IF member_resource_names' = <<>>
             THEN PplOpsOf(<<>>) /\ UNCHANGED lower
             ELSE /\ pc' = "batchget" /\ lower' = 0
                  /\ UNCHANGED <<pplInserts, pplUpdates, pplDeletes>>
          /\ UNCHANGED <<people, faults, result>>
    /\ UNCHANGED <<fnVars, setupVars, cmd, dry_run, run, aclVars, evVars, users, groupExists, contacts>>

\* An upper that takes all the names that are left
people_batch_get_upper_all == Len(member_resource_names)

\* people_batch_get: upper of the iteration that starts at lower
people_batch_get_upper ==
    Min({lower + PEOPLE_BATCH_GET_MAX_CONTACTS, Len(member_resource_names)})

\* One iteration of the loop of people_batch_get: people_batch_get_page of
\* the names lower+1..upper; after the last one people_sync goes on
PplBatchGetPage ==
    /\ cmd = "people" /\ pc = "batchget"
    /\ LET upper == people_batch_get_upper
           chunk == SubSeq(member_resource_names, lower + 1, upper)
       IN /\ pplCalls' = Append(pplCalls, PplCall("people.getBatchGet", Range(chunk)))
          /\ \/ /\ CanFault
                /\ faults' = faults + 1
                /\ result' = "err" /\ pc' = "done"
                /\ UNCHANGED <<people, lower, pplInserts, pplUpdates, pplDeletes>>
             \/ /\ people' =
                      people \o [i \in DOMAIN chunk |-> PersonWrapperFrom(contacts[chunk[i]])]
                /\ IF upper = Len(member_resource_names)
                   THEN PplOpsOf(people') /\ UNCHANGED lower
                   ELSE /\ lower' = upper
                        /\ UNCHANGED <<pc, pplInserts, pplUpdates, pplDeletes>>
                /\ UNCHANGED <<faults, result>>
    /\ UNCHANGED <<fnVars, setupVars, cmd, dry_run, run, aclVars, evVars, users, groupExists, contacts,
                   member_resource_names>>

\* people.batchCreateContacts as the service answers it: the contacts of
\* the request get the next resource names (here in the order of their
\* emails)
ContactsAfterCreate(chunk) ==
    LET Rank(u) == Cardinality({v \in chunk : v.email <= u.email})
        created == [k \in 1..Cardinality(chunk) |->
                       CreatedPerson(
                           create_api_person(CHOOSE u \in chunk : Rank(u) = k,
                                             GroupResourceName),
                           Len(contacts) + k)]
    IN contacts \o created

\* people.batchUpdateContacts as the service answers it: the fields of the
\* update mask are overwritten with those of the request
ContactsAfterUpdate(chunk) ==
    [rn \in DOMAIN contacts |->
        IF \E p \in chunk : p.resource_name = rn
        THEN LET p == CHOOSE q \in chunk : q.resource_name = rn
             IN [contacts[rn] EXCEPT !.addresses = p.addresses,
                                     !.phone_numbers = p.phone_numbers,
                                     !.user_defined = p.user_defined]
        ELSE contacts[rn]]

\* A people_batch_create that sends its requests in a dry run too
CreateGuardNone == TRUE

\* people_batch_create: if !self.dry_run
CreateGuard == ~dry_run

\* people_batch_update_ops: each pair becomes the person merged with the user
people_batch_update_ops(updates) == {update(up[2], up[1]) : up \in updates}

\* One iteration of the loop of people_batch_create over the chunks of
\* inserts; after the last one people_sync goes on to
\* people_batch_update_ops
PplBatchCreate ==
    /\ cmd = "people" /\ pc = "create"
    /\ \/ /\ pplInserts = {}
          /\ pplUpdates' = people_batch_update_ops(pplUpdates)
          /\ pc' = "update"
          /\ UNCHANGED <<pplInserts, contacts, pplCalls, faults, result>>
       \/ /\ pplInserts # {}
          /\ \E rest \in LeftOut(pplInserts, PEOPLE_BATCH_CREATE_MAX_CONTACTS) :
                LET chunk == pplInserts \ rest
                    call == PplCall("people.batchCreateContacts", {u.email : u \in chunk})
                IN \/ /\ ~CreateGuard
                      /\ pplInserts' = rest
                      /\ UNCHANGED <<contacts, pplCalls, faults, result, pc>>
                   \/ /\ CreateGuard
                      /\ pplCalls' = Append(pplCalls, call)
                      /\ contacts' = ContactsAfterCreate(chunk)
                      /\ pplInserts' = rest
                      /\ UNCHANGED <<faults, result, pc>>
                   \/ /\ CreateGuard /\ CanFault
                      /\ pplCalls' = Append(pplCalls, call)
                      /\ faults' = faults + 1
                      /\ result' = "err" /\ pc' = "done"
                      /\ UNCHANGED <<contacts, pplInserts>>
          /\ UNCHANGED pplUpdates
    /\ UNCHANGED <<fnVars, setupVars, cmd, dry_run, run, aclVars, evVars, users, groupExists, people,
                   lower, pplDeletes, member_resource_names>>

\* One iteration of the loop of people_batch_update over the chunks of the
\* merged persons; after the last one people_sync returns Ok(())
PplBatchUpdate ==
    /\ cmd = "people" /\ pc = "update"
    /\ \/ /\ pplUpdates = {}
          /\ result' = "ok" /\ pc' = "done"
          /\ UNCHANGED <<pplUpdates, contacts, pplCalls, faults>>
       \/ /\ pplUpdates # {}
          /\ \E rest \in LeftOut(pplUpdates, PEOPLE_BATCH_UPDATE_MAX_CONTACTS) :
                LET chunk == pplUpdates \ rest
                    call == [method |-> "people.batchUpdateContacts",
                             keys |-> {q.resource_name : q \in chunk},
                             update_mask |-> PERSON_FIELDS_UPDATE]
                IN \/ /\ dry_run
                      /\ pplUpdates' = rest
                      /\ UNCHANGED <<contacts, pplCalls, faults, result, pc>>
                   \/ /\ ~dry_run
                      /\ pplCalls' = Append(pplCalls, call)
                      /\ contacts' = ContactsAfterUpdate(chunk)
                      /\ pplUpdates' = rest
                      /\ UNCHANGED <<faults, result, pc>>
                   \/ /\ ~dry_run /\ CanFault
                      /\ pplCalls' = Append(pplCalls, call)
                      /\ faults' = faults + 1
                      /\ result' = "err" /\ pc' = "done"
                      /\ UNCHANGED <<contacts, pplUpdates>>
    /\ UNCHANGED <<fnVars, setupVars, cmd, dry_run, run, aclVars, evVars, users, groupExists, people,
                   lower, pplInserts, pplDeletes, member_resource_names>>

(***************************************************************************)
(* The program is run again with the same arguments                        *)
(***************************************************************************)
Rerun ==
    /\ cmd \in CalCmds /\ pc = "done" /\ result = "ok" /\ run = 1
    /\ run' = 2 /\ result' = "running" /\ pc' = "new"
    /\ newIdx' = 0 /\ aclCalls' = {} /\ acls' = <<>>
    /\ page_token' = NoneOpt /\ rules' = <<>> /\ listCalls' = <<>>
    /\ calStart' = cal /\ calPrev' = calStart
    /\ evPc' = [i \in DOMAIN evPc |-> "queued"]
    /\ evPatchRes' = [i \in DOMAIN evPc |-> None]
    /\ evInsRes' = [i \in DOMAIN evPc |-> None]
    /\ UNCHANGED <<fnVars, setupVars, cmd, dry_run, faults, acl, emails, owners, notify_acl_insert,
                   pageLen, aclIns, aclDel, aclInflight, aclFailed, events, cal, pplVars>>

\* The longest list of users whose run is followed into a repeated run
MaxRerunUsers == 2

\* The program is run again on the same users, with the gppl output
PplRerun ==
    /\ cmd = "people" /\ pc = "done" /\ result = "ok" /\ run = 1
    /\ Len(users) <= MaxRerunUsers
    /\ run' = 2 /\ result' = "running" /\ pc' = "new"
    /\ member_resource_names' = <<>> /\ people' = <<>> /\ lower' = 0 /\ pplDeletes' = {}
    /\ UNCHANGED <<fnVars, setupVars, cmd, dry_run, faults, aclVars, evVars, users, groupExists,
                   contacts, pplInserts, pplUpdates, pplCalls>>

(***************************************************************************)
(* The runs                                                                *)
(***************************************************************************)
\* The account has the calendar of the run and it has been located; no alias
\* is in play
SetupDone ==
    /\ calendars = <<[summary |-> CalendarName, description |-> CALENDAR_DESCRIPTION]>>
    /\ calendar_id = Some(1) /\ calInserts = 0
    /\ email_aliases = NoAliases /\ resolved = NoResolution

\* The program has been started
RunBegin ==
    /\ dry_run \in BOOLEAN /\ result = "running" /\ faults = 0 /\ run = 1
    /\ newIdx = 0 /\ acls = <<>> /\ aclIns = {} /\ aclDel = {} /\ aclInflight = {}
    /\ aclFailed = {} /\ aclCalls = {}
    /\ page_token = NoneOpt /\ rules = <<>> /\ listCalls = <<>>

\* GCal::new or GPpl::new has its target: the owners are next
RunStart == RunBegin /\ pc = "new" /\ SetupDone

\* process_users with the gcal output
InitAcl ==
    /\ FnIdle /\ EvIdle /\ PplIdle
    /\ cmd = "acl" /\ RunStart /\ pageLen = Cardinality(Emails)
    /\ acl \in [Emails -> {None, "reader", "owner"}]
    /\ emails \in SeqsUpTo(Emails, MaxDesired) /\ scmaEmails = emails
    /\ owners \in SeqsUpTo(Emails, MaxOwners)
    /\ notify_acl_insert \in BOOLEAN

\* process_events with the gcal output: the events read, then written, or
\* the pipeline
InitEvents ==
    /\ FnIdle /\ PplIdle
    /\ cmd \in EvCmds /\ RunStart /\ pageLen = Cardinality(Emails)
    /\ scmaEmails = <<>>
    /\ acl = NoAcl /\ emails = <<>> /\ notify_acl_insert = FALSE
    /\ owners \in SeqsUpTo({"c"}, MaxOwners)
    /\ \E n \in 0..MaxEvents :
          /\ events = [i \in 1..n |-> SourceEvent(i)]
          /\ evPc = [i \in 1..n |-> "queued"]
          /\ evPatchRes = [i \in 1..n |-> None]
          /\ evInsRes = [i \in 1..n |-> None]
          /\ cal \in {c \in [RemoteIds -> {None, "old"}] :
                         /\ c[ForeignId] = "old"
                         /\ \A k \in (n + 1)..MaxEvents : c[Format05(k)] = None}
    /\ calStart = cal /\ calPrev = cal

\* The numbers of users and of members of the runs: none, few, and more than
\* one chunk
PplSizes == {0, 1, 2, 51}

\* model.rs User: the user of the source with the number i
PplUser(i) ==
    [email |-> i, name |-> i, phone |-> Some("p1"), address |-> "a1", city |-> "city",
     state |-> "CA", zipcode |-> "90000", member_status |-> "RM",
     trip_leader_status |-> NoneOpt, position |-> NoneOpt]

\* A contact of the group, as the service holds it
PplContact(k, email_addresses) ==
    [resource_name |-> Some(k),
     names |-> Some(<<[display_name |-> Some(k), unstructured_name |-> Some(k)]>>),
     email_addresses |-> email_addresses,
     addresses |-> NoneOpt,
     phone_numbers |-> Some(<<[type |-> Some("home"), value |-> Some("p0")]>>),
     memberships |-> Some(<<GroupResourceName>>),
     user_defined |-> NoneOpt]

\* process_users with the gppl output
InitPeople ==
    /\ FnIdle /\ EvIdle
    /\ cmd = "people" /\ RunStart /\ pageLen = Cardinality(Emails)
    /\ scmaEmails = <<>>
    /\ acl = NoAcl /\ emails = <<>> /\ owners = <<>> /\ notify_acl_insert = FALSE
    /\ groupExists \in BOOLEAN
    /\ \E nUsers \in PplSizes, nMembers \in PplSizes, shift \in {0, 1}, noEmail \in BOOLEAN :
          /\ users = [i \in 1..nUsers |-> PplUser(i)]
          /\ contacts =
                IF groupExists
                THEN [k \in 1..nMembers |->
                        PplContact(k, IF noEmail /\ k = nMembers
                                      THEN NoneOpt
                                      ELSE Some(<<[type |-> Some("home"),
                                                   value |-> Some(k + shift)]>>))]
                ELSE <<>>
    /\ member_resource_names = <<>>
    /\ people = <<>> /\ lower = 0 /\ pplInserts = {} /\ pplUpdates = {} /\ pplDeletes = {}
    /\ pplCalls = <<>>

NextPeople ==
    \/ GPplNew \/ PplMembers \/ PplBatchGetPage \/ PplBatchCreate \/ PplBatchUpdate
    \/ PplRerun

SpecPeople == InitPeople /\ [][NextPeople]_vars

\* The numbers of members around the window of people_batch_get
PplMemberSizes == {0, 1, 49, 50, 51, 100, 101}

\* process_users with the gppl output on groups of these sizes, with at most
\* one user
InitPeopleGet ==
    /\ FnIdle /\ EvIdle
    /\ cmd = "people" /\ RunStart /\ pageLen = Cardinality(Emails)
    /\ scmaEmails = <<>>
    /\ acl = NoAcl /\ emails = <<>> /\ owners = <<>> /\ notify_acl_insert = FALSE
    /\ groupExists \in BOOLEAN
    /\ \E nUsers \in {0, 1}, nMembers \in PplMemberSizes :
          /\ users = [i \in 1..nUsers |-> PplUser(i)]
          /\ contacts =
                IF groupExists
                THEN [k \in 1..nMembers |->
                        PplContact(k, Some(<<[type |-> Some("home"), value |-> Some(k)]>>))]
                ELSE <<>>
    /\ member_resource_names = <<>>
    /\ people = <<>> /\ lower = 0 /\ pplInserts = {} /\ pplUpdates = {} /\ pplDeletes = {}
    /\ pplCalls = <<>>

SpecPeopleGet == InitPeopleGet /\ [][NextPeople]_vars

\* The loop of people_batch_get is a sequence of awaited requests: each
\* iteration that can be taken is taken
SpecPeopleGetLive == SpecPeopleGet /\ WF_vars(PplBatchGetPage)

\* process_users with the gppl output for a group that is as large as one
\* response of contactGroups.get, or one member short of it: the users are
\* none, one without a contact, or that one and one whose contact is the
\* first member
PplLargeSizes == {CONTACT_GROUPS_GET_MAX_MEMBERS - 1, CONTACT_GROUPS_GET_MAX_MEMBERS}

PplLargeUsers ==
    {<<>>, <<PplUser(CONTACT_GROUPS_GET_MAX_MEMBERS + 1)>>,
     <<PplUser(1), PplUser(CONTACT_GROUPS_GET_MAX_MEMBERS + 1)>>}

InitPeopleLarge ==
    /\ FnIdle /\ EvIdle
    /\ cmd = "people" /\ RunStart /\ pageLen = Cardinality(Emails)
    /\ scmaEmails = <<>>
    /\ acl = NoAcl /\ emails = <<>> /\ owners = <<>> /\ notify_acl_insert = FALSE
    /\ groupExists = TRUE
    /\ users \in PplLargeUsers
    /\ \E nMembers \in PplLargeSizes :
          contacts = [k \in 1..nMembers |->
                        PplContact(k, Some(<<[type |-> Some("home"), value |-> Some(k)]>>))]
    /\ member_resource_names = <<>>
    /\ people = <<>> /\ lower = 0 /\ pplInserts = {} /\ pplUpdates = {} /\ pplDeletes = {}
    /\ pplCalls = <<>>

SpecPeopleLarge == InitPeopleLarge /\ [][NextPeople]_vars

NextAcl ==
    \/ NewOwnerInsert \/ NewDone
    \/ AclList \/ AclStart \/ AclInsertOrDelete \/ AclDone
    \/ Rerun

NextEvents ==
    \/ NewOwnerInsert \/ NewDone
    \/ EvStart \/ EvDone
    \/ \E i \in DOMAIN evPc : EvFetch(i)
    \/ \E i \in DOMAIN evPc : EvPatch(i)
    \/ \E i \in DOMAIN evPc : EvInsert(i)
    \/ Rerun

SpecAcl == InitAcl /\ [][NextAcl]_vars

SpecEvents == InitEvents /\ [][NextEvents]_vars

\* The most events of a list whose ids are not told apart
MaxListedEvents == 3

\* The ids of the listed events: the strings of the site's JSON listing or of
\* an events file, deserialized as they are (web.rs EventList, main.rs
\* serde_yaml::from_str); two of them parse to the same number
ListedIds == {<<1>>, <<0, 1>>, <<2>>}

\* process_events with the gcal output, on a list of events the code takes
\* as it is, whatever its ids
InitEventsListed ==
    /\ FnIdle /\ PplIdle
    /\ cmd \in EvCmds /\ RunStart /\ pageLen = Cardinality(Emails)
    /\ scmaEmails = <<>>
    /\ acl = NoAcl /\ emails = <<>> /\ notify_acl_insert = FALSE
    /\ owners \in SeqsUpTo({"c"}, MaxOwners)
    /\ \E n \in 0..MaxListedEvents :
          /\ \E ids \in [1..n -> ListedIds] :
                 events = [i \in 1..n |-> [id |-> ids[i], data |-> EventData[i]]]
          /\ evPc = [i \in 1..n |-> "queued"]
          /\ evPatchRes = [i \in 1..n |-> None]
          /\ evInsRes = [i \in 1..n |-> None]
    /\ cal \in {c \in [RemoteIds -> {None, "old"}] :
                   /\ c[ForeignId] = "old"
                   /\ \A k \in 3..MaxEvents : c[Format05(k)] = None}
    /\ calStart = cal /\ calPrev = cal

SpecEventsListed == InitEventsListed /\ [][NextEvents]_vars

\* The most rules the calendar service returns in a page
MaxPageLen == 2

\* process_users with the gcal output, on a calendar whose ACL comes in pages
InitAclPaged ==
    /\ FnIdle /\ EvIdle /\ PplIdle
    /\ cmd = "acl" /\ RunStart
    /\ pageLen \in 1..MaxPageLen
    /\ acl \in [Emails -> {None, "reader", "owner"}]
    /\ emails \in SeqsUpTo(Emails, MaxDesired) /\ scmaEmails = emails
    /\ owners \in SeqsUpTo({"c"}, MaxOwners)
    /\ notify_acl_insert = FALSE

NextAclPaged ==
    \/ NewOwnerInsert \/ NewDone
    \/ AclList \/ AclStart \/ AclInsertOrDelete \/ AclDone

SpecAclPaged == InitAclPaged /\ [][NextAclPaged]_vars

\* The most calendars the account has
MaxCalendars == 2

\* main with the gcal output, from GCal::new's lookup of the calendar on
InitStartup ==
    /\ FnIdle /\ PplIdle
    /\ cmd \in CalCmds /\ RunBegin /\ pc = "calendar"
    /\ calendars \in SeqsUpTo([summary : {CalendarName, "Other"},
                               description : {CALENDAR_DESCRIPTION}], MaxCalendars)
    /\ calendar_id = NoneOpt /\ calInserts = 0
    /\ email_aliases = NoAliases /\ resolved = NoResolution
    /\ pageLen = Cardinality(Emails) /\ notify_acl_insert = FALSE
    /\ owners \in SeqsUpTo(Emails, MaxOwners)
    /\ IF cmd = "acl"
       THEN /\ acl \in [Emails -> {None, "reader"}]
            /\ emails \in SeqsUpTo({"a", "b"}, 1)
            /\ events = <<>> /\ evPc = <<>> /\ evPatchRes = <<>> /\ evInsRes = <<>>
            /\ cal = NoCal
       ELSE /\ acl = NoAcl /\ emails = <<>>
            /\ \E n \in 0..2 :
                  /\ events = [i \in 1..n |-> SourceEvent(i)]
                  /\ evPc = [i \in 1..n |-> "queued"]
                  /\ evPatchRes = [i \in 1..n |-> None]
                  /\ evInsRes = [i \in 1..n |-> None]
            /\ cal = [NoCal EXCEPT ![ForeignId] = "old"]
    /\ scmaEmails = emails /\ calStart = cal /\ calPrev = cal

NextStartup == CalendarsGetOrInsertByName \/ NextAcl \/ NextEvents

SpecStartup == InitStartup /\ [][NextStartup]_vars

\* process_users with the gcal output and a map of aliases, on a calendar
\* service that resolves the alias "b" to "c" or resolves nothing
InitAclAlias ==
    /\ FnIdle /\ EvIdle /\ PplIdle
    /\ cmd = "acl" /\ RunBegin /\ pc = "aliases"
    /\ calendars = <<[summary |-> CalendarName, description |-> CALENDAR_DESCRIPTION]>>
    /\ calendar_id = NoneOpt /\ calInserts = 0
    /\ scmaEmails \in SeqsUpTo(Emails, MaxDesired)
    /\ email_aliases \in {NoAliases, [e \in {"b"} |-> "c"]}
    /\ resolved \in {NoResolution, [NoResolution EXCEPT !["b"] = "c"]}
    /\ pageLen = Cardinality(Emails) /\ notify_acl_insert = FALSE
    /\ owners \in SeqsUpTo({"a"}, MaxOwners)
    /\ acl \in {a \in [Emails -> {None, "reader"}] : \A e \in Emails : resolved[e] # e => a[e] = None}
    /\ emails = <<>>

NextAclAlias == ProcessUsers \/ CalendarsGetOrInsertByName \/ NextAcl

SpecAclAlias == InitAclAlias /\ [][NextAclAlias]_vars

\* The loop of acl_list is a task the runtime keeps polling: a page request
\* that can be sent is sent, and answered
SpecAclPagedLive == SpecAclPaged /\ WF_vars(AclList)

Next ==
    \/ NewOwnerInsert \/ NewDone
    \/ AclList \/ AclStart \/ AclInsertOrDelete \/ AclDone
    \/ EvStart \/ EvDone
    \/ \E i \in DOMAIN evPc : EvFetch(i)
    \/ \E i \in DOMAIN evPc : EvPatch(i)
    \/ \E i \in DOMAIN evPc : EvInsert(i)
    \/ Rerun
    \/ GPplNew \/ PplMembers \/ PplBatchGetPage \/ PplBatchCreate \/ PplBatchUpdate
    \/ PplRerun

Init == InitAcl \/ InitEvents \/ InitPeople

Spec == Init /\ [][Next]_vars

(***************************************************************************)
(* Claims                                                                  *)
(***************************************************************************)

\* The remote persons that have an email: the actual side of the diff
OpsPeopleWithEmail == {p \in Range(opsPeople) : p.email # NoneOpt}

OpsUserEmails == {u.email : u \in Range(opsUsers)}

OpsPersonEmails == {p.email[1] : p \in OpsPeopleWithEmail}

\* The last user of the list whose email is e
LastUser(e) ==
    opsUsers[CHOOSE i \in DOMAIN opsUsers :
                /\ opsUsers[i].email = e
                /\ \A j \in DOMAIN opsUsers : j > i => opsUsers[j].email # e]

\* The last remote person of the list whose email is e
LastPerson(e) ==
    opsPeople[CHOOSE i \in DOMAIN opsPeople :
                /\ opsPeople[i].email = Some(e)
                /\ \A j \in DOMAIN opsPeople : j > i => opsPeople[j].email # Some(e)]

\* The number of elements of the three buckets whose key is e
OpsKeyCount(e) ==
    Cardinality({u \in opsResult.inserts : u.email = e})
    + Cardinality({p \in opsResult.deletes : p.email = Some(e)})
    + Cardinality({up \in opsResult.updates : up[1].email = e})

OpsBucketSizes ==
    Cardinality(opsResult.inserts) + Cardinality(opsResult.updates)
    + Cardinality(opsResult.deletes)

\* C1 as stated: the inserts are all the users whose email no remote person
\* has, the deletes all the remote persons whose email no user has, the
\* updates all the (user, person) pairs sharing an email, every email is in
\* exactly one bucket, and the bucket sizes add up to the number of distinct
\* emails.
C1_AsStated ==
    called =>
        /\ opsResult.inserts = {u \in Range(opsUsers) : u.email \notin OpsPersonEmails}
        /\ opsResult.deletes = {p \in OpsPeopleWithEmail : p.email[1] \notin OpsUserEmails}
        /\ opsResult.updates =
               {up \in Range(opsUsers) \X OpsPeopleWithEmail : Some(up[1].email) = up[2].email}
        /\ \A e \in OpsUserEmails \cup OpsPersonEmails : OpsKeyCount(e) = 1
        /\ OpsBucketSizes = Cardinality(OpsUserEmails \cup OpsPersonEmails)

\* C1 (amended): people_sync_ops classifies by email key, one record per
\* key: for each email that no remote person has, the inserts hold the last
\* user of the list with that email; for each email that no user has, the
\* deletes hold the last remote person with that email; for each shared
\* email the updates hold the pair (last user, last person) with it.  Every
\* email of desired and actual is the key of exactly one element of exactly
\* one bucket, and the bucket sizes add up to the number of distinct emails.
C1_DiffPartition ==
    called =>
        /\ opsResult.inserts = {LastUser(e) : e \in OpsUserEmails \ OpsPersonEmails}
        /\ opsResult.deletes = {LastPerson(e) : e \in OpsPersonEmails \ OpsUserEmails}
        /\ opsResult.updates =
               {<<LastUser(e), LastPerson(e)>> : e \in OpsUserEmails \cap OpsPersonEmails}
        /\ \A e \in OpsUserEmails \cup OpsPersonEmails : OpsKeyCount(e) = 1
        /\ OpsBucketSizes = Cardinality(OpsUserEmails \cup OpsPersonEmails)

\* The diff has run on a list in which two different users share an email,
\* and that found a user to insert and a pair to update.
C1_Witness ==
    /\ called
    /\ opsResult.inserts # {} /\ opsResult.updates # {}
    /\ \E i, j \in DOMAIN opsUsers : i # j /\ opsUsers[i].email = opsUsers[j].email
                                     /\ opsUsers[i] # opsUsers[j]

ReaderRules == SelectSeq(aclOpsRules, LAMBDA r : r.role = "reader")

AclOpsReaderEmails == {r.value : r \in Range(ReaderRules)}

\* C2: acl_sync_ops diffs the desired emails against the emails of the
\* reader rules only: inserts = desired minus readers, deletes = readers
\* minus desired, an email on both sides is in neither set, and the rules of
\* any other role change nothing (the result is that of the reader rules
\* alone).
C2_AclReaderDiff ==
    called =>
        /\ aclOpsResult.inserts = Range(aclOpsEmails) \ AclOpsReaderEmails
        /\ aclOpsResult.deletes = AclOpsReaderEmails \ Range(aclOpsEmails)
        /\ \A e \in Range(aclOpsEmails) \cap AclOpsReaderEmails :
               e \notin aclOpsResult.inserts \cup aclOpsResult.deletes
        /\ aclOpsResult = acl_sync_ops(aclOpsEmails, ReaderRules)

\* The diff has run on an ACL with a reader to delete, a reader to keep, a
\* desired email to insert and a rule of another role.
C2_Witness ==
    /\ called
    /\ aclOpsResult.inserts # {} /\ aclOpsResult.deletes # {}
    /\ Range(aclOpsEmails) \cap AclOpsReaderEmails # {}
    /\ \E r \in Range(aclOpsRules) : r.role # "reader"

\* The operations acl_sync has taken from its stream or still holds in it
AclQueuedEmails == aclIns \cup aclDel \cup {unit.email : unit \in aclInflight}

\* The requests acl_insert_or_delete has sent: reader inserts and deletes
AclSyncCalls ==
    {c \in aclCalls : c.method = "delete" \/ (c.method = "insert" /\ c.role = "reader")}

\* C3: acl_sync issues no reader insert and no delete for an email of the
\* owners list, whatever the desired emails and the ACL are: no such
\* operation is in its stream or in flight and no such request is sent; with
\* desired {a,b}, readers {b,c} and owners {c} the only operation is the
\* insert of a, and there is no delete.
C3_OwnersExcluded ==
    cmd = "acl" =>
        /\ \A e \in AclQueuedEmails : e \notin Range(owners)
        /\ \A c \in AclSyncCalls : c.email \notin Range(owners)
        /\ (/\ pc = "pool"
            /\ Range(emails) = {"a", "b"}
            /\ {r.value : r \in {x \in Range(acls) : x.role = "reader"}} = {"b", "c"}
            /\ Range(owners) = {"c"})
           => /\ aclIns \cup {u.email : u \in {x \in aclInflight : x.op = "Insert"}}
                    \cup {c.email : c \in {x \in AclSyncCalls : x.method = "insert"}} \subseteq {"a"}
              /\ aclDel = {}
              /\ \A u \in aclInflight : u.op # "Delete"

\* A finished run in which the plain diff held an insert of an owner and a
\* delete of nobody, and the reader insert of another email was sent
C3_Witness ==
    /\ cmd = "acl" /\ run = 1 /\ pc = "done" /\ result = "ok" /\ ~dry_run
    /\ \E e \in Range(owners) : e \in acl_sync_ops(emails, acls).inserts
    /\ \E c \in AclSyncCalls : c.method = "insert" /\ c.email \notin Range(owners)

\* C4: an email that holds an owner rule in the listed ACL is pinned:
\* acl_sync sends neither a delete nor a reader insert for it.
C4_OwnerRulePinned ==
    cmd = "acl" =>
        \A c \in AclSyncCalls :
            \A r \in Range(acls) : r.role = "owner" => r.value # c.email

\* The requests of people_sync that write: batch creates and batch updates
PplWriteCalls ==
    {k \in DOMAIN pplCalls :
        pplCalls[k].method \in {"people.batchCreateContacts", "people.batchUpdateContacts"}}

PplReadMethods == {pplCalls[k].method : k \in DOMAIN pplCalls}

\* C5: in a dry run acl_sync sends no ACL insert or delete, write and the
\* pipeline send no event patch or insert, and people_sync sends no batch
\* create or batch update; the reads are still made (the ACL is listed, the
\* members of the group are got), and the run whose reads succeed returns Ok.
C5_DryRunNoWrites ==
    dry_run =>
        /\ aclCalls = {}
        /\ \A i \in DOMAIN evPc : evPatchRes[i] = None /\ evInsRes[i] = None
        /\ cal = calStart
        /\ PplWriteCalls = {}
        /\ (pc = "done" /\ faults = 0) =>
              /\ result = "ok"
              /\ aclFailed = {} /\ EvFailed = {}
              /\ cmd = "acl" => acls = AclRules(acl)
              /\ cmd = "people" =>
                    /\ "contactGroups.get" \in PplReadMethods
                    /\ member_resource_names # <<>> =>
                          /\ "people.getBatchGet" \in PplReadMethods
                          /\ Len(people) = Len(member_resource_names)

\* A dry run of people_sync has returned Ok with users to create and persons
\* to update
C5_Witness ==
    /\ dry_run /\ cmd = "people" /\ pc = "done" /\ result = "ok"
    /\ people_sync_ops(users, people).inserts # {}
    /\ people_sync_ops(users, people).updates # {}

\* The entries of an Option<Vec<_>>
Entries(list) == IF list = NoneOpt THEN <<>> ELSE list[1]

IsForeign(entry) == entry.type # Some("SCMA")

\* The entries of now are those of before, each where it was, but for
\* entries of the type SCMA
OnlyScmaChanged(before, now) ==
    /\ Len(now) >= Len(before)
    /\ \A i \in DOMAIN before : IsForeign(before[i]) => now[i] = before[i]
    /\ \A i \in DOMAIN now : i > Len(before) => ~IsForeign(now[i])

\* C10: update removes, moves and changes no phone-number or address entry
\* whose type is not SCMA: after a merge every such entry of the person is
\* where it was, next to the SCMA entry of the user, and a merge repeated
\* with changed user data changes the SCMA entry only.
C10_ForeignEntriesKept ==
    mStep >= 1 =>
        LET user == mUsers[mStep]
        IN /\ OnlyScmaChanged(Entries(mOrig.phone_numbers), Entries(mPerson.phone_numbers))
           /\ OnlyScmaChanged(Entries(mOrig.addresses), Entries(mPerson.addresses))
           /\ OnlyScmaChanged(Entries(mPrev.phone_numbers), Entries(mPerson.phone_numbers))
           /\ OnlyScmaChanged(Entries(mPrev.addresses), Entries(mPerson.addresses))
           /\ \E i \in DOMAIN Entries(mPerson.phone_numbers) :
                 Entries(mPerson.phone_numbers)[i] = [type |-> Some("SCMA"), value |-> user.phone]
           /\ \E i \in DOMAIN Entries(mPerson.addresses) :
                 /\ Entries(mPerson.addresses)[i].type = Some("SCMA")
                 /\ Entries(mPerson.addresses)[i].formatted_value = Some(User_address(user))
           /\ mStep = 2 =>
                 /\ Len(Entries(mPerson.phone_numbers)) = Len(Entries(mPrev.phone_numbers))
                 /\ Len(Entries(mPerson.addresses)) = Len(Entries(mPrev.addresses))
                 /\ Cardinality({i \in DOMAIN Entries(mPrev.phone_numbers) :
                        Entries(mPerson.phone_numbers)[i] # Entries(mPrev.phone_numbers)[i]}) <= 1

\* A person with a foreign phone entry and a foreign address entry has been
\* merged twice, the second time with another phone number
C10_Witness ==
    /\ mStep = 2
    /\ \E i \in DOMAIN Entries(mOrig.phone_numbers) : IsForeign(Entries(mOrig.phone_numbers)[i])
    /\ \E i \in DOMAIN Entries(mOrig.addresses) : IsForeign(Entries(mOrig.addresses)[i])
    /\ Len(Entries(mPerson.phone_numbers)) = Len(Entries(mOrig.phone_numbers)) + 1
    /\ mPerson.phone_numbers # mPrev.phone_numbers

\* C6: events_patch_or_insert sends the patch first and sends the insert
\* only after a patch that failed because the event id does not exist; a
\* patch that succeeded is never followed by an insert.
C6_InsertOnlyOnNotFound ==
    cmd \in EvCmds =>
        \A i \in DOMAIN evPc :
            /\ (evPc[i] = "insert" \/ evInsRes[i] # None) => evPatchRes[i] = "notFound"
            /\ evPatchRes[i] = "ok" => (evPc[i] # "insert" /\ evInsRes[i] = None)

\* C7: without remote failures, a write of the same events repeated leaves
\* the calendar as the first write left it, each event under its own id; the
\* sync of an id the calendar does not have is one patch answered not found
\* and one insert, the sync of an id it has is one patch and no insert.
C7_WriteIdempotent ==
    (cmd \in EvCmds /\ ~dry_run /\ faults = 0) =>
        /\ \A i \in DOMAIN evPc :
              evPc[i] = "done" =>
                 /\ cal[event_id(events[i])] = events[i].data
                 /\ IF calStart[event_id(events[i])] = None
                    THEN evPatchRes[i] = "notFound" /\ evInsRes[i] = "ok"
                    ELSE evPatchRes[i] = "ok" /\ evInsRes[i] = None
        /\ (pc = "done" /\ result = "ok") =>
              /\ \A i \in DOMAIN events : cal[event_id(events[i])] = events[i].data
              /\ Cardinality({event_id(events[i]) : i \in DOMAIN events}) = Len(events)
              /\ \A r \in RemoteIds :
                    r \notin {event_id(events[i]) : i \in DOMAIN events} => cal[r] = calPrev[r]
        /\ (run = 2 /\ pc = "done") =>
              /\ result = "ok"
              /\ cal = calStart
              /\ \A i \in DOMAIN evPc : evPatchRes[i] = "ok" /\ evInsRes[i] = None

\* The second write has finished; the first one found an event the calendar
\* did not have and one it had
C7_Witness ==
    /\ cmd \in EvCmds /\ ~dry_run /\ faults = 0
    /\ run = 2 /\ pc = "done" /\ result = "ok"
    /\ \E i, j \in DOMAIN events :
          /\ calPrev[event_id(events[i])] = None
          /\ calPrev[event_id(events[j])] = "old"

C9_WidthBounded ==
    /\ [](Cardinality(aclInflight) <= 1 /\ Cardinality(EvInFlight) <= 3)
    /\ [][/\ Cardinality(aclInflight') > Cardinality(aclInflight)
             => Cardinality(aclInflight) < 1
          /\ Cardinality(EvInFlight') > Cardinality(EvInFlight)
             => Cardinality(EvInFlight) < 3]_vars

\* The pool of events is full and an event waits
C9_Witness ==
    /\ cmd \in EvCmds /\ pc = "pool"
    /\ Cardinality(EvInFlight) = 3 /\ EvQueued # {}

ScmaKeys == {SCMA_MEMBER_STATUS_KEY, SCMA_TRIP_LEADER_STATUS_KEY, SCMA_POSITION_KEY}

\* The entries of a user-defined list whose key is none of the SCMA keys, in
\* their order, an absent key or value read as the empty string
ForeignUserDefined(list) ==
    LET kept == SelectSeq(Entries(list), LAMBDA e : UnwrapOrDefault(e.key) \notin ScmaKeys)
    IN [i \in DOMAIN kept |-> <<UnwrapOrDefault(kept[i].key), UnwrapOrDefault(kept[i].value)>>]

\* C11: person_user_defined_update_or_insert keeps every user-defined entry
\* whose key is not an SCMA key: same key, same value, as many times and in
\* the same relative order as in the input.
C11_ForeignUserDefinedKept ==
    mStep >= 1 =>
        ForeignUserDefined(mPerson.user_defined) = ForeignUserDefined(mOrig.user_defined)

\* C12: for a user without a phone number update leaves the person's list
\* of phone numbers as it was: no entry is added and the SCMA entry keeps its
\* value.
C12_NoPhoneLeavesList ==
    (mStep >= 1 /\ mUsers[mStep].phone = NoneOpt) =>
        mPerson.phone_numbers = mPrev.phone_numbers

\* The batch update requests sent
PplUpdateCalls ==
    {k \in DOMAIN pplCalls : pplCalls[k].method = "people.batchUpdateContacts"}

\* The names, email addresses and memberships of a person
Identity(person) ==
    <<person.names, person.email_addresses, person.memberships>>

\* C13: a contacts update changes no resource name, membership, name or
\* email address: every merged person has the resource name, names, emails
\* and memberships of its contact, every batch update request has the update
\* mask addresses,phoneNumbers,userDefined, and no contact ever changes in
\* these fields.
C13_UpdateFrame ==
    /\ [](cmd = "people" =>
            /\ \A k \in PplUpdateCalls :
                  pplCalls[k].update_mask = "addresses,phoneNumbers,userDefined"
            /\ pc = "update" =>
                  \A q \in pplUpdates :
                     /\ q.resource_name \in DOMAIN contacts
                     /\ contacts[q.resource_name].resource_name = Some(q.resource_name)
                     /\ Identity(q) = Identity(contacts[q.resource_name]))
    /\ [][\A rn \in DOMAIN contacts :
             /\ rn \in DOMAIN contacts'
             /\ contacts'[rn].resource_name = contacts[rn].resource_name
             /\ Identity(contacts'[rn]) = Identity(contacts[rn])]_vars

\* A run has updated a contact whose name is not the user's
C13_Witness ==
    /\ cmd = "people" /\ ~dry_run /\ pc = "done" /\ result = "ok"
    /\ PplUpdateCalls # {}
    /\ \E i \in DOMAIN users, rn \in DOMAIN contacts :
          /\ contacts[rn].email_addresses # NoneOpt
          /\ contacts[rn].email_addresses[1][1].value = Some(users[i].email)
          /\ contacts[rn].names[1][1].display_name # Some(users[i].name)
          /\ contacts[rn].phone_numbers =
                Some(<<[type |-> Some("home"), value |-> Some("p0")],
                       [type |-> Some("SCMA"), value |-> users[i].phone]>>)

\* The conversions done so far, each with the event it converted
Converted == {k \in 1..Len(convOut) : convOut[k].ok}

\* The number of the day of a date in a count of all days from 2023-01-01,
\* by a table of the months before it
DayNumber(date) ==
    LET RECURSIVE Before(_, _)
        Before(y, m) ==
            IF m = 1 THEN (IF y = 2023 THEN 0 ELSE Before(y - 1, 13))
            ELSE Before(y, m - 1) + DaysInMonth(y, m - 1)
    IN Before(date[1], date[2]) + date[3]

\* C14 as stated: the end sent for a multi-day event is the day after its end
\* date, and the end sent for a single-day event is its end date unmodified.
C14_AsStated ==
    \A k \in Converted :
        LET event == convEvents[k]
        IN IF event.end_date = event.start_date
           THEN convOut[k].end = event.end_date
           ELSE DayNumber(convOut[k].end) = DayNumber(event.end_date) + 1

\* C14 as the code has it: for every event, single-day or multi-day, the start
\* sent is the start date and the end sent is the calendar day after the end
\* date (2024-01-01..2024-01-01 is sent with the end 2024-01-02, an end of
\* 2024-01-03 is sent as 2024-01-04), across the ends of months and years.
C14_EndIsNextDay ==
    \A k \in Converted :
        LET event == convEvents[k]
            end == convOut[k].end
        IN /\ convOut[k].start = event.start_date
           /\ DayNumber(end) = DayNumber(event.end_date) + 1
           /\ end[2] \in 1..12
           /\ end[3] \in 1..DaysInMonth(end[1], end[2])

\* A single-day event on the last day of February of a leap year, converted,
\* and sent with the first of March as its end
C14_Witness ==
    /\ Len(convEvents) = 1
    /\ convEvents[1].start_date = <<2024, 2, 29>>
    /\ convEvents[1].end_date = <<2024, 2, 29>>
    /\ Converted = {1}
    /\ convOut[1].end = <<2024, 3, 1>>

\* C15 as stated: every id that parses is sent as a string of exactly 5
\* characters, zero-padded, and different numbers never share a remote id.
C15_AsStated ==
    \A k \in Converted :
        /\ Len(convOut[k].id) = 5
        /\ \A j \in Converted :
             ParseU32(convEvents[j].id) # ParseU32(convEvents[k].id)
                 => convOut[j].id # convOut[k].id

\* C15 as the code has it: the remote id of an id that parses is the decimal
\* form of its number, zero-padded to at least 5 characters (exactly 5 below
\* 100000, one per digit from there on); it is a function of the number (two
\* spellings of one number get one remote id), and different numbers never
\* share a remote id. An id that does not parse as a u32 has no remote id.
C15_IdOfNumber ==
    /\ \A k \in 1..Len(convOut) : convOut[k].ok = ParsesAsU32(convEvents[k].id)
    /\ \A k \in Converted :
         LET n == ParseU32(convEvents[k].id)
             id == convOut[k].id
         IN /\ Len(id) >= 5
            /\ n < 100000 => Len(id) = 5
            /\ n >= 100000 => id[1] # 0
            /\ \A i \in 1..Len(id) : id[i] \in 0..9
            /\ ParseU32(id) = n
            /\ \A j \in Converted :
                 (ParseU32(convEvents[j].id) = n) = (convOut[j].id = id)

\* Two events converted, the first with a number of six digits and the second
\* with a padded spelling of a small number: a remote id of six characters and
\* one of five
C15_Witness ==
    /\ Len(convOut) = 2
    /\ convEvents[1].id = <<1, 0, 0, 0, 0, 0>>
    /\ convEvents[2].id = <<0, 0, 0, 0, 0, 1>>
    /\ convOut[1].id = <<1, 0, 0, 0, 0, 0>>
    /\ convOut[2].id = <<0, 0, 0, 0, 1>>

\* The page requests a listing sends when every request is answered: the
\* first with no token, each next with the token of the response before
RECURSIVE PagesFrom(_)
PagesFrom(token) ==
    LET rsp == acl_list_page(token)
    IN IF rsp.next_page_token = NoneOpt THEN <<token>>
       ELSE <<token>> \o PagesFrom(rsp.next_page_token)

RECURSIVE ItemsOf(_)
ItemsOf(tokens) ==
    IF tokens = <<>> THEN <<>>
    ELSE acl_list_page(Head(tokens)).items \o ItemsOf(Tail(tokens))

\* C16: acl_list sends its first page request with no page token and each
\* following request with the next_page_token of the response before it; when
\* it returns Ok, the rules returned are the items of every page, in page
\* order, each page requested once and none skipped: the whole ACL.
C16_PagesInOrder ==
    [][(cmd = "acl" /\ listCalls' # listCalls) =>
          /\ Len(listCalls') = Len(listCalls) + 1
          /\ listCalls = <<>> => listCalls'[1] = NoneOpt
          /\ listCalls # <<>> =>
               /\ listCalls'[Len(listCalls')]
                      = acl_list_page(listCalls[Len(listCalls)]).next_page_token
               /\ listCalls'[Len(listCalls')] # NoneOpt
          /\ pc' = "pool" =>
               /\ listCalls' = PagesFrom(NoneOpt)
               /\ \A i, j \in DOMAIN listCalls' : i # j => listCalls'[i] # listCalls'[j]
               /\ acls' = ItemsOf(listCalls')
               /\ acls' = AclRules(acl)]_vars

\* An ACL of three rules listed in three pages of one rule
C16_Witness ==
    /\ cmd = "acl" /\ pc = "pool" /\ pageLen = 1
    /\ listCalls = <<NoneOpt, Some(1), Some(2)>>
    /\ Len(acls) = 3
    /\ acls = AclRules(acl)

\* C17: acl_list ends its loop exactly on a page response without a
\* next_page_token: a response with a token is followed by another request,
\* a response without one ends the listing with Ok, and no request is sent
\* after the listing has ended.  The remote's pages of a finite ACL run out,
\* so every listing begun ends.
C17_ListTerminates ==
    /\ [][(cmd = "acl" /\ pc = "list" /\ listCalls' # listCalls /\ result' # "err") =>
             /\ (pc' = "pool") = (acl_list_page(page_token).next_page_token = NoneOpt)
             /\ (pc' = "list") = (acl_list_page(page_token).next_page_token # NoneOpt)
             /\ page_token' = acl_list_page(page_token).next_page_token]_vars
    /\ [][(cmd = "acl" /\ pc # "list") => listCalls' = listCalls]_vars
    /\ [](cmd = "acl" /\ pc = "list" /\ listCalls # <<>> => page_token # NoneOpt)
    /\ (cmd = "acl" /\ pc = "list") ~> (pc # "list")

\* A listing that has ended with Ok after its second page, the first of them
\* having carried a token
C17_Witness ==
    /\ cmd = "acl" /\ pc = "pool" /\ pageLen = 2
    /\ listCalls = <<NoneOpt, Some(2)>>
    /\ page_token = NoneOpt
    /\ Len(acls) = 3

\* The listing of acl_sync has returned Err
AclListFailed ==
    cmd = "acl" /\ pc = "done" /\ result = "err" /\ listCalls # <<>> /\ aclFailed = {}

\* C18: acl_sync starts no ACL insert or delete before acl_list has returned
\* every page: while pages are being fetched no operation is queued, in flight
\* or sent; when a page request fails, acl_sync fails, the rules of the pages
\* got before are dropped and no reader insert or delete is ever sent; and
\* every reader insert sent is for an email that has no reader rule on any
\* page of the ACL.
C18_ListBeforeWrites ==
    /\ [](cmd = "acl" /\ (pc = "list" \/ AclListFailed) =>
             /\ AclSyncCalls = {}
             /\ aclIns = {} /\ aclDel = {} /\ aclInflight = {}
             /\ acls = <<>>
             /\ AclListFailed => rules = <<>>)
    /\ [][cmd = "acl" =>
             \A c \in AclSyncCalls' \ AclSyncCalls :
                 /\ pc = "pool"
                 /\ page_token = NoneOpt
                 /\ c.method = "insert" => acl[c.email] # "reader"]_vars

\* A finished sync of an ACL listed in two pages of one rule, with a reader on
\* each: the reader of the second page is desired and is not inserted, a new
\* email is inserted and the reader of the first page is deleted
C18_Witness ==
    /\ cmd = "acl" /\ pc = "done" /\ result = "ok" /\ ~dry_run /\ pageLen = 1
    /\ listCalls = <<NoneOpt, Some(1)>>
    /\ acls = <<[role |-> "reader", value |-> "a"], [role |-> "reader", value |-> "b"]>>
    /\ emails = <<"b", "c">> /\ owners = <<>>
    /\ aclCalls = {InsertCall("c", "reader", FALSE), DeleteCall("a")}

ClassifiedDelete(rn) ==
    /\ InGroup(rn)
    /\ LET email == PersonWrapperFrom(contacts[rn]).email
       IN email # NoneOpt /\ \A i \in DOMAIN users : users[i].email # email[1]

PplMethods ==
    {"contactGroups.list", "contactGroups.create", "contactGroups.get",
     "people.getBatchGet", "people.batchCreateContacts", "people.batchUpdateContacts"}

\* C20: for a person classified as a delete people_sync sends nothing: the
\* persons of ops.deletes are the members of the group whose email no user
\* has, no request of a run is a delete or a change of membership, no batch
\* update names such a person, in a dry run or not, and the person's contact
\* is the same after every step of a first and of a repeated sync.
C20_DeleteIsNoOp ==
    /\ [](cmd = "people" =>
             /\ \A k \in DOMAIN pplCalls : pplCalls[k].method \in PplMethods
             /\ \A k \in PplUpdateCalls :
                    \A rn \in pplCalls[k].keys : ~ClassifiedDelete(rn)
             /\ pc \in {"create", "update"} =>
                    {p.resource_name : p \in pplDeletes}
                        = {rn \in DOMAIN contacts : ClassifiedDelete(rn)}
             /\ pc = "update" => \A q \in pplUpdates : ~ClassifiedDelete(q.resource_name))
    /\ [][cmd = "people" =>
             \A rn \in DOMAIN contacts :
                 ClassifiedDelete(rn) =>
                    /\ rn \in DOMAIN contacts'
                    /\ contacts'[rn] = contacts[rn]]_vars

\* A repeated sync, not a dry run, that has created and updated contacts and
\* has ended with a member no user matches still as it was
C20_Witness ==
    /\ cmd = "people" /\ ~dry_run /\ run = 2 /\ pc = "done" /\ result = "ok"
    /\ \E k \in DOMAIN pplCalls : pplCalls[k].method = "people.batchCreateContacts"
    /\ PplUpdateCalls # {}
    /\ 2 \in DOMAIN contacts /\ ClassifiedDelete(2)
    /\ contacts[2] = PplContact(2, Some(<<[type |-> Some("home"), value |-> Some(3)]>>))

\* A member of the group whose PersonWrapper has no email
NoEmailMember(rn) == InGroup(rn) /\ PersonWrapperFrom(contacts[rn]).email = NoneOpt

\* C21: a remote person with no email address is in none of the inserts,
\* updates and deletes people_sync_ops returns, no batch update of people_sync
\* names it, and its contact is the same after every step of the sync.
C21_NoEmailUntouched ==
    /\ [](cmd = "people" =>
             \A rn \in DOMAIN contacts :
                 NoEmailMember(rn) =>
                    /\ \A u \in pplInserts : PersonWrapperFrom(contacts[rn]).email # Some(u.email)
                    /\ \A p \in pplDeletes : p.resource_name # rn
                    /\ pc = "create" => \A up \in pplUpdates : up[2].resource_name # rn
                    /\ pc = "update" => \A q \in pplUpdates : q.resource_name # rn
                    /\ \A k \in PplUpdateCalls : rn \notin pplCalls[k].keys)
    /\ [][cmd = "people" =>
             \A rn \in DOMAIN contacts :
                 NoEmailMember(rn) =>
                    rn \in DOMAIN contacts' /\ contacts'[rn] = contacts[rn]]_vars

\* A finished sync, not a dry run, that has read a member without an email
\* beside a member it has updated, and has left it as it was
C21_Witness ==
    /\ cmd = "people" /\ ~dry_run /\ pc = "done" /\ result = "ok"
    /\ PplUpdateCalls # {}
    /\ 2 \in DOMAIN contacts /\ NoEmailMember(2)
    /\ \E i \in DOMAIN people : people[i].resource_name = 2 /\ people[i].email = NoneOpt
    /\ contacts[2] = PplContact(2, NoneOpt)

PplCreateCalls == {k \in DOMAIN pplCalls : pplCalls[k].method = "people.batchCreateContacts"}

\* C22: in a run that is not a dry run, people_batch_create and
\* people_batch_update send their input in chunks of at most 50 contacts, one
\* batch request per chunk and one request per step of the loop, each chunk
\* taking 50 records or all that are left; in the first sync, once a loop has
\* ended, every input record is in exactly one of its requests, the requests
\* are as few as chunks of 50 allow, and an empty input has sent none.
C22_ChunksOfFifty ==
    /\ [][(cmd = "people" /\ pc \in {"create", "update"} /\ pplCalls' # pplCalls) =>
             LET input == IF pc = "create" THEN pplInserts ELSE pplUpdates
                 rest == IF pc = "create" THEN pplInserts' ELSE pplUpdates'
                 max == IF pc = "create" THEN PEOPLE_BATCH_CREATE_MAX_CONTACTS
                        ELSE PEOPLE_BATCH_UPDATE_MAX_CONTACTS
                 call == pplCalls'[Len(pplCalls')]
                 size == IF Cardinality(input) < max THEN Cardinality(input) ELSE max
             IN /\ ~dry_run
                /\ Len(pplCalls') = Len(pplCalls) + 1
                /\ SubSeq(pplCalls', 1, Len(pplCalls)) = pplCalls
                /\ call.method = (IF pc = "create" THEN "people.batchCreateContacts"
                                  ELSE "people.batchUpdateContacts")
                /\ Cardinality(call.keys) \in 1..max
                /\ Cardinality(call.keys) = size
                /\ call.keys \subseteq {IF pc = "create" THEN x.email ELSE x.resource_name :
                                            x \in input}
                /\ result' # "err" =>
                      /\ rest \subseteq input /\ Cardinality(input \ rest) = size
                      /\ call.keys = {IF pc = "create" THEN x.email ELSE x.resource_name :
                                         x \in input \ rest}
                /\ result' = "err" => rest = input]_vars
    /\ [](cmd = "people" /\ ~dry_run /\ run = 1 /\ result # "err" =>
             LET ops == people_sync_ops(users, people)
             IN /\ pc \in {"update", "done"} =>
                    /\ UNION {pplCalls[k].keys : k \in PplCreateCalls}
                           = {u.email : u \in ops.inserts}
                    /\ \A j, k \in PplCreateCalls :
                           j # k => pplCalls[j].keys \cap pplCalls[k].keys = {}
                    /\ Cardinality(PplCreateCalls)
                           = (Cardinality(ops.inserts) + PEOPLE_BATCH_CREATE_MAX_CONTACTS - 1)
                                 \div PEOPLE_BATCH_CREATE_MAX_CONTACTS
                /\ pc = "done" =>
                    /\ UNION {pplCalls[k].keys : k \in PplUpdateCalls}
                           = {up[2].resource_name : up \in ops.updates}
                    /\ \A j, k \in PplUpdateCalls :
                           j # k => pplCalls[j].keys \cap pplCalls[k].keys = {}
                    /\ Cardinality(PplUpdateCalls)
                           = (Cardinality(ops.updates) + PEOPLE_BATCH_UPDATE_MAX_CONTACTS - 1)
                                 \div PEOPLE_BATCH_UPDATE_MAX_CONTACTS)

\* A finished first sync of 51 users and 51 members that has sent a batch
\* update of 50 persons and one of 1 person, and no batch create
C22_Witness ==
    /\ cmd = "people" /\ ~dry_run /\ run = 1 /\ pc = "done" /\ result = "ok"
    /\ Len(users) = 51
    /\ PplCreateCalls = {}
    /\ {Cardinality(pplCalls[k].keys) : k \in PplUpdateCalls} = {50, 1}
    /\ Cardinality(PplUpdateCalls) = 2

\* The calendars of the account that have the name of the run
NamedCalendars == {i \in DOMAIN calendars : calendars[i].summary = CalendarName}

C24_DryRunNoGroupCreate ==
    (cmd = "people" /\ dry_run) =>
        \A k \in DOMAIN pplCalls :
            pplCalls[k].method \in {"contactGroups.list", "contactGroups.get",
                                    "people.getBatchGet"}

\* The emails outside the owners list that hold a reader rule
ReadersOutsideOwners == {e \in Emails \ Range(owners) : acl[e] = "reader"}

\* C25: after an acl_sync that returned Ok and was not a dry run, the emails
\* outside the owners list that hold a reader rule are the desired emails
\* outside the owners list; the acl_sync of the run repeated with the same
\* arguments computes no insert and no delete and sends no request.
C25_AclConverges ==
    (cmd = "acl" /\ ~dry_run) =>
        /\ (pc = "done" /\ result = "ok") =>
               ReadersOutsideOwners = Range(emails) \ Range(owners)
        /\ (run = 2 /\ pc \in {"pool", "done"}) =>
               /\ result # "err" =>
                      /\ acl_sync_ops(emails, acls).inserts \subseteq Range(owners)
                      /\ acl_sync_ops(emails, acls).deletes \subseteq Range(owners)
               /\ aclIns = {} /\ aclDel = {} /\ aclInflight = {}
               /\ AclSyncCalls = {}

\* A repeated sync that has ended with Ok after a first sync that inserted a
\* reader and deleted another
C25_Witness ==
    /\ cmd = "acl" /\ ~dry_run /\ run = 2 /\ pc = "done" /\ result = "ok"
    /\ emails = <<"a", "b">> /\ owners = <<>>
    /\ acls = <<[role |-> "reader", value |-> "a"], [role |-> "reader", value |-> "b"]>>
    /\ acl = [NoAcl EXCEPT !["a"] = "reader", !["b"] = "reader"]
    /\ AclSyncCalls = {}

\* C26: the diff is deterministic as sets.  After people_sync_ops has
\* returned, no two records of a bucket carry the same email, also when the
\* users or the persons repeat an email, and under every iteration order of
\* the hash sets the Vec of a bucket holds each key once and the same records:
\* the record the map holds for the key, whatever the order.
C26_DiffDeterministic ==
    called /\ opsResult # NoPersonOps =>
        LET usersMap == HashMapCollect(KeyedUsers(opsUsers))
            peopleMap == HashMapCollect(KeyedPeople(opsPeople))
            ins == DOMAIN usersMap \ DOMAIN peopleMap
            del == DOMAIN peopleMap \ DOMAIN usersMap
            upd == DOMAIN usersMap \cap DOMAIN peopleMap
        IN /\ \A u1, u2 \in opsResult.inserts : u1.email = u2.email => u1 = u2
           /\ \A p1, p2 \in opsResult.deletes : p1.email = p2.email => p1 = p2
           /\ \A q1, q2 \in opsResult.updates : q1[1].email = q2[1].email => q1 = q2
           /\ \A o \in HashOrders(ins) :
                  /\ Range(CollectVec(o, usersMap)) = opsResult.inserts
                  /\ Len(CollectVec(o, usersMap)) = Cardinality(opsResult.inserts)
           /\ \A o \in HashOrders(del) :
                  /\ Range(CollectVec(o, peopleMap)) = opsResult.deletes
                  /\ Len(CollectVec(o, peopleMap)) = Cardinality(opsResult.deletes)
           /\ \A o \in HashOrders(upd) :
                  /\ {<<usersMap[o[i]], peopleMap[o[i]]>> : i \in DOMAIN o} = opsResult.updates
                  /\ Len(o) = Cardinality(opsResult.updates)

\* Two users share the email a and two persons share the email b; each
\* bucket holds one record for its email.
C26_Witness ==
    /\ called
    /\ opsUsers = <<[email |-> "a", name |-> "n1"], [email |-> "a", name |-> "n2"]>>
    /\ opsPeople = <<[resource_name |-> "p1", email |-> Some("b")],
                     [resource_name |-> "p2", email |-> Some("b")]>>
    /\ opsResult.inserts = {[email |-> "a", name |-> "n2"]}
    /\ opsResult.deletes = {[resource_name |-> "p2", email |-> Some("b")]}
    /\ opsResult.updates = {}

\* C27: within one apply phase each remote key is the target of one unit of
\* work: no two units of GCal::write that are in flight patch or insert the
\* same remote event id.
C27_OneUnitPerRemoteEvent ==
    cmd \in EvCmds =>
        \A i, j \in DOMAIN evPc :
            (i # j /\ evPc[i] \in {"patch", "insert"} /\ evPc[j] \in {"patch", "insert"})
                => event_id(events[i]) # event_id(events[j])

\* The calendar service stores every address acl_sync is given under the
\* aliases as that address: the alias the service resolves is a key of the
\* table and the table maps it to the resolved address
AliasesCoverResolution ==
    \A e \in Range(scmaEmails) :
        IF e \in DOMAIN email_aliases
        THEN resolved[e] = email_aliases[e] /\ resolved[email_aliases[e]] = email_aliases[e]
        ELSE resolved[e] = e

\* C28: the desired emails are remapped through the alias table before the
\* diff.  Once process_users has built the list, the email of a user whose
\* SCMA email is a key of the table is the mapped value and every other email
\* is unchanged; every reader insert acl_sync sends is of an email of that
\* list; and when the service resolves the alias to the mapped value, the
\* sync that follows a successful one computes no insert and no delete
\* (outside the owners list) and sends no request.
C28_AliasesRemapped ==
    (cmd = "acl" /\ pc # "aliases" /\ scmaEmails # <<>>) =>
        /\ Len(emails) = Len(scmaEmails)
        /\ \A i \in DOMAIN scmaEmails :
               emails[i] = IF scmaEmails[i] \in DOMAIN email_aliases
                           THEN email_aliases[scmaEmails[i]]
                           ELSE scmaEmails[i]
        /\ \A c \in aclCalls :
               (c.method = "insert" /\ c.role = "reader") => c.email \in Range(emails)
        /\ (/\ ~dry_run /\ AliasesCoverResolution
            /\ run = 2 /\ pc \in {"pool", "done"} /\ result # "err") =>
               /\ acl_sync_ops(emails, acls).inserts \subseteq Range(owners)
               /\ acl_sync_ops(emails, acls).deletes \subseteq Range(owners)
               /\ AclSyncCalls = {}

\* The user b is in the table as c and the service resolves b to c: the first
\* sync made c a reader and the second sync has finished without a request.
C28_Witness ==
    /\ cmd = "acl" /\ ~dry_run
    /\ scmaEmails = <<"b">> /\ emails = <<"c">>
    /\ "b" \in DOMAIN email_aliases /\ resolved["b"] = "c"
    /\ run = 2 /\ pc = "done" /\ result = "ok"
    /\ acl["c"] = "reader" /\ acl["b"] = None
    /\ AclSyncCalls = {}

\* Within a run every unit of work issues each of its remote writes at most
\* once and never goes back to a write it has issued: an event's unit has one
\* patch and, after it, at most one insert; an ACL operation leaves the
\* stream once, sends one request and is not queued again; every contacts
\* request is one more request of the loop, for records no request of the run
\* (the calls since its contactGroups.list) has carried, and nothing is sent
\* once people_sync has returned.
EachWriteIssuedOnce ==
    [][run' = run =>
          /\ cmd \in EvCmds =>
                \A i \in DOMAIN evPc :
                    /\ evPatchRes'[i] # evPatchRes[i] =>
                           /\ evPatchRes[i] = None /\ evInsRes[i] = None
                           /\ evPc[i] = "patch" /\ evPc'[i] \in {"done", "insert"}
                    /\ evInsRes'[i] # evInsRes[i] =>
                           /\ evInsRes[i] = None /\ evPatchRes[i] \in {"notFound", "error"}
                           /\ evPc[i] = "insert" /\ evPc'[i] \in {"done", "failed"}
                    /\ evPc[i] = "insert" => evPc'[i] \in {"insert", "done", "failed", "dropped"}
                    /\ evPc[i] \in {"done", "failed", "dropped"} => evPc'[i] = evPc[i]
          /\ (cmd = "acl" /\ pc = "pool") =>
                /\ aclIns' \subseteq aclIns /\ aclDel' \subseteq aclDel
                /\ \A u \in aclInflight' \ aclInflight :
                       u.email \in (IF u.op = "Insert" THEN aclIns \ aclIns' ELSE aclDel \ aclDel')
                /\ aclCalls' # aclCalls =>
                       \E u \in aclInflight \ aclInflight' :
                           /\ aclCalls' = aclCalls \cup {AclCallOf(u)}
                           /\ aclInflight' = aclInflight \ {u}
                           /\ AclCallOf(u) \notin aclCalls
          /\ cmd = "people" =>
                /\ pc \in {"create", "update"} =>
                       /\ Len(pplCalls') \in {Len(pplCalls), Len(pplCalls) + 1}
                       /\ SubSeq(pplCalls', 1, Len(pplCalls)) = pplCalls
                       /\ (pplCalls' # pplCalls /\ result' # "err") =>
                              \A k \in DOMAIN pplCalls :
                                  (/\ pplCalls[k].method = pplCalls'[Len(pplCalls')].method
                                   /\ \A j \in k..Len(pplCalls) :
                                          pplCalls[j].method # "contactGroups.list")
                                      => pplCalls[k].keys \cap pplCalls'[Len(pplCalls')].keys = {}
                /\ pc = "done" => pplCalls' = pplCalls]_vars

\* A failing insert of an event, a failing ACL request and a failing contacts
\* request fail their unit and end the run with the error.
FailedCallFailsUnit ==
    [][run' = run =>
          /\ cmd \in EvCmds =>
                \A i \in DOMAIN evPc :
                    (evInsRes[i] = None /\ evInsRes'[i] = "error") =>
                        evPc'[i] = "failed" /\ result' = "err" /\ pc' = "done"
          /\ (cmd = "acl" /\ pc = "pool" /\ faults' # faults) =>
                /\ aclFailed' # aclFailed /\ result' = "err" /\ pc' = "done"
          /\ (cmd = "people" /\ pc \in {"create", "update"} /\ faults' # faults) =>
                result' = "err" /\ pc' = "done"]_vars

NoSyncIssued ==
    /\ listCalls = <<>> /\ AclSyncCalls = {}
    /\ aclIns = {} /\ aclDel = {} /\ aclInflight = {}
    /\ \A i \in DOMAIN evPc :
           evPc[i] = "queued" /\ evPatchRes[i] = None /\ evInsRes[i] = None

\* C30: GCal::new inserts every configured owner with the role "owner", once
\* the calendar is located or created and before anything of the run's sync:
\* an owner insert is sent only when the calendar id is known and nothing of
\* the sync has been issued, one owner after the other in the order of the
\* list, without a notification; the sync starts only after the last owner;
\* once the startup of a run that is not a dry run has succeeded every
\* configured owner holds an owner rule; and a failing owner insert ends the
\* run with the error, nothing of the sync having been issued.
C30_OwnersInsertedAtStartup ==
    /\ [][(cmd \in CalCmds /\ run' = run /\ pc = "new") =>
             /\ calendar_id # NoneOpt /\ NoSyncIssued
             /\ aclCalls' # aclCalls =>
                    /\ ~dry_run /\ newIdx < Len(owners)
                    /\ aclCalls' = aclCalls \cup {InsertCall(owners[newIdx + 1], "owner", FALSE)}
                    /\ \/ newIdx' = newIdx + 1 /\ acl'[owners[newIdx + 1]] = "owner"
                       \/ faults' # faults
             /\ faults' # faults => (result' = "err" /\ pc' = "done" /\ acl' = acl)
             /\ pc' \in {"list", "pool"} => newIdx = Len(owners)]_vars
    /\ [][(cmd \in CalCmds /\ pc # "new" /\ run' = run) =>
             \A c \in aclCalls' \ aclCalls : c.role # "owner"]_vars
    /\ [](cmd \in CalCmds =>
            /\ (~dry_run /\ (pc \in {"list", "pool"} \/ (pc = "done" /\ newIdx = Len(owners)))) =>
                   \A o \in Range(owners) :
                       acl[o] = "owner" /\ InsertCall(o, "owner", FALSE) \in aclCalls
            /\ (pc = "done" /\ newIdx < Len(owners)) => (result = "err" /\ NoSyncIssued))

\* The calendar was created, the owner c was inserted, and the ACL sync has
\* begun.
C30_Witness ==
    /\ cmd = "acl" /\ ~dry_run /\ run = 1
    /\ calInserts = 1 /\ calendar_id # NoneOpt
    /\ owners = <<"c">> /\ acl["c"] = "owner"
    /\ InsertCall("c", "owner", FALSE) \in aclCalls
    /\ pc = "pool" /\ listCalls # <<>>

\* The insert of the owner c failed: the run has ended with the error and
\* nothing of the sync was issued.
C30_WitnessAbort ==
    /\ cmd \in CalCmds /\ ~dry_run /\ owners = <<"c">>
    /\ pc = "done" /\ result = "err" /\ newIdx = 0 /\ faults = 1
    /\ calendar_id # NoneOpt
    /\ InsertCall("c", "owner", FALSE) \in aclCalls

\* The list `now` is the optional list `before` with the entry `new` put in
\* place of its first entry of the type of `new`, every other entry where it
\* was; or with `new` appended when it has no entry of that type; or the list
\* of `new` alone when `before` is absent
UpdatedOrInserted(before, now, new) ==
    IF before = NoneOpt
    THEN now = Some(<<new>>)
    ELSE LET old == before[1]
             hits == {i \in DOMAIN old : old[i].type = new.type}
         IN /\ now # NoneOpt
            /\ IF hits = {}
               THEN /\ Len(now[1]) = Len(old) + 1
                    /\ now[1][Len(old) + 1] = new
                    /\ \A i \in DOMAIN old : now[1][i] = old[i]
               ELSE /\ Len(now[1]) = Len(old)
                    /\ \A i \in DOMAIN old :
                           now[1][i] = IF i = Min(hits) THEN new ELSE old[i]

\* C31: person_phone_numbers_update_or_insert and
\* person_addresses_update_or_insert replace in place the first entry of the
\* new entry's type and leave the length and every other entry as they were,
\* append the new entry when no entry has that type, and return a list of one
\* entry when the list is absent; the whole list is never replaced.
C31_UpdateOrInsertInPlace ==
    mStep >= 1 =>
        LET user == mUsers[mStep]
        IN /\ UpdatedOrInserted(mPrev.phone_numbers, mPerson.phone_numbers,
                                [type |-> Some("SCMA"), value |-> user.phone])
           /\ UpdatedOrInserted(mPrev.addresses, mPerson.addresses,
                                [type |-> Some("SCMA"),
                                 formatted_value |-> Some(User_address(user))])

\* A person with two SCMA phone entries and no list of addresses has been
\* merged: the first phone entry is the user's, the second is as it was, and
\* the addresses are the user's address alone.
C31_Witness ==
    /\ mStep = 1
    /\ mOrig.phone_numbers = Some(<<[type |-> Some("SCMA"), value |-> Some("p0")],
                                    [type |-> Some("SCMA"), value |-> Some("q0")]>>)
    /\ mOrig.addresses = NoneOpt
    /\ mPerson.phone_numbers = Some(<<[type |-> Some("SCMA"), value |-> Some("p1")],
                                      [type |-> Some("SCMA"), value |-> Some("q0")]>>)
    /\ mPerson.addresses = Some(<<create_api_address(mUsers[1])>>)

\* The entries of an optional list that have the SCMA type
ScmaTyped(list) == {i \in DOMAIN Entries(list) : Entries(list)[i].type = Some("SCMA")}

\* C32: update is idempotent for a fixed user: the merge of the user into
\* the result of a merge of the same user has the phone numbers, addresses
\* and user-defined entries of the first merge, with as many SCMA-typed phone
\* and address entries as the first merge left and one entry for each SCMA
\* key.
C32_UpdateIdempotent ==
    (mStep = 2 /\ mUsers[1] = mUsers[2]) =>
        /\ mPerson.phone_numbers = mPrev.phone_numbers
        /\ mPerson.addresses = mPrev.addresses
        /\ mPerson.user_defined = mPrev.user_defined
        /\ mPerson = update(mOrig, mUsers[1])
        /\ Cardinality(ScmaTyped(mPerson.phone_numbers))
               = (IF ScmaTyped(mOrig.phone_numbers) = {} THEN 1
                  ELSE Cardinality(ScmaTyped(mOrig.phone_numbers)))
        /\ Cardinality(ScmaTyped(mPerson.addresses))
               = (IF ScmaTyped(mOrig.addresses) = {} THEN 1
                  ELSE Cardinality(ScmaTyped(mOrig.addresses)))
        /\ \A k \in ScmaKeys :
               Cardinality({i \in DOMAIN Entries(mPerson.user_defined) :
                               Entries(mPerson.user_defined)[i].key = Some(k)}) = 1

\* A person with a home phone and a Nickname has been merged twice with the
\* same user: one SCMA phone entry, one SCMA address and the three SCMA keys
\* were added by the first merge and the second changed nothing.
C32_Witness ==
    /\ mStep = 2 /\ mUsers[1] = mUsers[2]
    /\ mOrig.phone_numbers = Some(<<[type |-> Some("home"), value |-> Some("p0")]>>)
    /\ mOrig.addresses = NoneOpt
    /\ mOrig.user_defined = Some(<<[key |-> Some("Nickname"), value |-> Some("x")]>>)
    /\ Len(Entries(mPerson.phone_numbers)) = 2
    /\ Len(Entries(mPerson.addresses)) = 1
    /\ Len(Entries(mPerson.user_defined)) = 4
    /\ mPerson = mPrev

\* The place of a request in the order of people_sync's steps
PplStepOf(method) ==
    CASE method = "contactGroups.get" -> 1
      [] method = "people.getBatchGet" -> 2
      [] method = "people.batchCreateContacts" -> 3
      [] method = "people.batchUpdateContacts" -> 4
      [] OTHER -> 0

\* The requests of the current run: those from its contactGroups.list on
PplRunCalls ==
    LET lists == {k \in DOMAIN pplCalls : pplCalls[k].method = "contactGroups.list"}
    IN IF lists = {} THEN <<>> ELSE SubSeq(pplCalls, Max(lists), Len(pplCalls))

\* C33: people_sync performs its remote steps in the order group members,
\* batch get, batch create of all inserts, batch update of all updates: the
\* steps follow each other in that order and every request of a run belongs
\* to a step no earlier than the requests before it.  A failing request ends
\* the sync with the error: no request follows it in the run, and the
\* contacts are left as the requests that succeeded made them.
C33_PeopleSyncOrder ==
    /\ [][(cmd = "people" /\ run' = run) =>
             /\ pc' # pc =>
                    \/ pc = "new" /\ pc' \in {"members", "done"}
                    \/ pc = "members" /\ pc' \in {"batchget", "create", "done"}
                    \/ pc = "batchget" /\ pc' \in {"create", "done"}
                    \/ pc = "create" /\ pc' \in {"update", "done"}
                    \/ pc = "update" /\ pc' = "done"
             /\ (pc = "members" /\ pc' = "create") => GroupMembers = <<>>
             /\ (pc = "create" /\ pc' = "update") => pplInserts = {}
             /\ (pc = "update" /\ pc' = "done" /\ result' = "ok") => pplUpdates = {}
             /\ faults' # faults =>
                    /\ result' = "err" /\ pc' = "done"
                    /\ contacts' = contacts
                    /\ Len(pplCalls') > Len(pplCalls)
             /\ pc = "done" => (pplCalls' = pplCalls /\ contacts' = contacts)]_vars
    /\ [](cmd = "people" =>
            /\ \A j, k \in DOMAIN PplRunCalls :
                   j < k => PplStepOf(PplRunCalls[j].method) <= PplStepOf(PplRunCalls[k].method)
            /\ (pc = "done" /\ result = "ok" /\ ~dry_run /\ run = 1) =>
                   /\ UNION {pplCalls[k].keys : k \in PplCreateCalls}
                          = {u.email : u \in people_sync_ops(users, people).inserts}
                   /\ UNION {pplCalls[k].keys : k \in PplUpdateCalls}
                          = {q[2].resource_name : q \in people_sync_ops(users, people).updates})

\* Of 51 users to create the first chunk of 50 was created and the request
\* of the second chunk failed: the sync has ended with the error, the 50
\* contacts stay, and no update was sent.
C33_Witness ==
    /\ cmd = "people" /\ ~dry_run /\ run = 1
    /\ pc = "done" /\ result = "err" /\ faults = 1
    /\ Len(users) = 51 /\ Len(contacts) = 50
    /\ Cardinality(PplCreateCalls) = 2 /\ PplUpdateCalls = {}
    /\ pplCalls[Len(pplCalls)].method = "people.batchCreateContacts"

\* The batch-get requests of the current run, in the order they were sent
PplGetCalls == SelectSeq(PplRunCalls, LAMBDA c : c.method = "people.getBatchGet")

\* C34: for n >= 1 resource names people_batch_get sends ceil(n/50) requests
\* over consecutive windows of at most 50 names, with lower < upper <= n at
\* every iteration, asks for every name once and in order, and ends;
\* people_sync sends no batch-get request when the group has no members.
C34_BatchGetWindows ==
    /\ [][(cmd = "people" /\ pc = "batchget") =>
             LET n == Len(member_resource_names)
                 upper == people_batch_get_upper
             IN /\ n >= 1 /\ lower < upper /\ upper <= n
                /\ upper - lower <= PEOPLE_BATCH_GET_MAX_CONTACTS
                /\ upper = n \/ upper - lower = PEOPLE_BATCH_GET_MAX_CONTACTS
                /\ Len(people) = lower
                /\ pplCalls' = Append(pplCalls,
                       PplCall("people.getBatchGet",
                               {member_resource_names[i] : i \in (lower + 1)..upper}))
                /\ result' # "err" =>
                       /\ Len(people') = upper
                       /\ IF upper = n THEN pc' = "create" ELSE pc' = "batchget" /\ lower' = upper
                /\ pc' = "create" =>
                       /\ Len(PplGetCalls')
                              = (n + PEOPLE_BATCH_GET_MAX_CONTACTS - 1)
                                    \div PEOPLE_BATCH_GET_MAX_CONTACTS
                       /\ \A j \in DOMAIN PplGetCalls' :
                              PplGetCalls'[j].keys =
                                  {member_resource_names[i] :
                                      i \in ((j - 1) * PEOPLE_BATCH_GET_MAX_CONTACTS + 1)
                                              ..Min({j * PEOPLE_BATCH_GET_MAX_CONTACTS, n})}
                       /\ Len(people') = n
                       /\ \A i \in 1..n : people'[i].resource_name = member_resource_names[i]]_vars
    /\ [][(cmd = "people" /\ pc = "members" /\ run' = run) =>
             /\ PplGetCalls = <<>>
             /\ GroupMembers = <<>> => pc' \in {"create", "done"}]_vars
    /\ [][(cmd = "people" /\ Len(PplGetCalls') > Len(PplGetCalls)) =>
             pc = "batchget" /\ member_resource_names # <<>>]_vars
    /\ ((cmd = "people" /\ pc = "batchget") ~> (pc # "batchget"))

\* The 101 members of a group have been got with three requests.
C34_Witness ==
    /\ cmd = "people" /\ run = 1 /\ pc = "create"
    /\ Len(member_resource_names) = 101 /\ Len(people) = 101
    /\ Len(PplGetCalls) = 3
    /\ PplGetCalls[3].keys = {member_resource_names[101]}

\* The remote ids derived from the given events: the number of the id,
\* formatted with at least five digits
DerivedIds == {Format05(ParseU32(events[i].id)) : i \in DOMAIN events}

\* C35: the event sync only patches or inserts the events it is given.  A
\* step changes a remote event only if its id is the derived id of a given
\* event whose unit is patching or inserting, and then to the data of that
\* event; no remote event is ever removed; so every remote event whose id is
\* not derived from a given event is, at any point of any number of writes,
\* as it was at the start.
C35_OnlyGivenEventsWritten ==
    /\ [][(cmd \in EvCmds) =>
             \A r \in RemoteIds :
                 /\ cal[r] # None => cal'[r] # None
                 /\ cal'[r] # cal[r] =>
                        /\ ~dry_run
                        /\ \E i \in DOMAIN events :
                               /\ Format05(ParseU32(events[i].id)) = r
                               /\ evPc[i] \in {"patch", "insert"}
                               /\ events[i].data = cal'[r]]_vars
    /\ [](cmd \in EvCmds =>
            \A r \in RemoteIds \ DerivedIds : cal[r] = calPrev[r])

\* Two writes of two events have finished, one event inserted and one
\* patched by the first write; the remote event 99999 is as it was.
C35_Witness ==
    /\ cmd = "events" /\ ~dry_run /\ run = 2 /\ pc = "done" /\ result = "ok"
    /\ Len(events) = 2
    /\ calPrev[Format05(1)] = None /\ calPrev[Format05(2)] = "old"
    /\ cal[Format05(1)] = EventData[1] /\ cal[Format05(2)] = EventData[2]
    /\ ForeignId \notin DerivedIds /\ cal[ForeignId] = "old"

\* The id the calendar service gives a rule: "<scope type>:<scope value>",
\* as the pair of the two, or the scope type alone
ListedRuleId(rule) ==
    IF rule.value = NoneOpt THEN <<rule.scope_type>> ELSE <<rule.scope_type, rule.value[1]>>

\* C36: every delete of acl_sync targets a rule of the listed ACL: the diff
\* is computed for every listing, and the id composed for an email to delete
\* is the id of every reader rule the email was taken from, whatever the
\* scope type of the rule.
C36_DeleteTargetsListedRule ==
    called =>
        /\ ~aclOpsResult.panic
        /\ \A e \in aclOpsResult.deletes :
               \A i \in DOMAIN aclOpsRules :
                   (aclOpsRules[i].role = "reader" /\ aclOpsRules[i].value = Some(e)) =>
                       acl_delete_rule_id(e) = ListedRuleId(aclOpsRules[i])

\* C37: after a people_sync that is not a dry run has returned Ok, the
\* repeated people_sync with the same users classifies no user as an insert
\* and sends no people.batchCreateContacts, whatever the number of members
\* of the group.
C37_NoInsertOnRepeat ==
    /\ [][(cmd = "people" /\ ~dry_run /\ run = 2 /\ pc # "create" /\ pc' = "create") =>
             pplInserts' = {}]_vars
    /\ [](cmd = "people" /\ ~dry_run /\ run = 2 /\ pc # "new" =>
             \A k \in DOMAIN PplRunCalls :
                 PplRunCalls[k].method # "people.batchCreateContacts")
====
